---- MODULE Spec2Model ----
(***************************************************************************)
(* Storage engine of the Apple Health dashboard:                           *)
(* src/src/data_storage/health_database.py (class HealthDatabase).         *)
(*                                                                         *)
(* The SQLite file is the variable db; every method opens its own          *)
(* connection (_get_connection), works on a private copy (tx) inside the   *)
(* implicit transaction that Python's sqlite3 opens before the first       *)
(* INSERT / UPDATE / DELETE, and makes it visible with conn.commit().      *)
(* Closing a connection without commit discards tx.  The methods are       *)
(* modelled statement by statement so that a process-level interruption    *)
(* can fall between any two statements.                                    *)
(***************************************************************************)
EXTENDS Integers, Sequences, FiniteSets, TLC

VARIABLES
    db,      \* the database file: committed content of the four tables
    tx,      \* content seen by the open connection (uncommitted changes)
    pc,      \* next statement of the running method, "idle" between calls
    call,    \* the running method, its argument and the file at call time
    backup,  \* the backup file written by backup_database
    clock,   \* wall clock read by datetime.now()
    ret      \* outcome of the last finished call

vars == <<db, tx, pc, call, backup, clock, ret>>

----------------------------------------------------------------------------
(* Bounds of the model.                                                    *)

\* number of insert_health_record calls that may start (each reads the clock)
MaxClock == 3
\* number of records stored before the queries of the query model
MaxQueryInserts == 2
\* last calendar day and last time of day of the query model's timestamps
MaxDay == 1
MaxTod == 1
\* significant bits of a REAL value (binary floating point; an IEEE double
\* has 53, the model keeps fewer so that products of mantissas stay small)
MantissaBits == 8
\* number of Record elements and of Workout elements in an export document
MaxElements == 2

----------------------------------------------------------------------------
(* Values.                                                                 *)

\* SQL NULL in a TEXT column and Python None for a text value
NULL == "NULL"
\* SQL NULL in a DATETIME column
NullDate == << >>
\* a nullable REAL column holds NullReal or Real(v)
NullReal == << >>
Real(v) == <<v>>
\* an empty Python dict
EmptyDict == << >>
\* Python None where a datetime is expected
None == [none |-> TRUE]

\* a Python datetime (naive): calendar day and time of day
Datetime(d, t) == [day |-> d, tod |-> t]

\* a str that holds a date in ISO form, such as datetime.isoformat() returns
IsoString(d, t) == [iso |-> <<d, t>>]

\* datetime.isoformat(): 'YYYY-MM-DDTHH:MM:SS', the date field before the
\* time field; texts are compared field by field from the left
isoformat(dt) == <<dt.day, dt.tod>>

\* binary (lexicographic) comparison of two stored texts
RECURSIVE TextLE(_, _)
TextLE(a, b) ==
    IF a = << >> THEN TRUE
    ELSE IF b = << >> THEN FALSE
    ELSE IF Head(a) < Head(b) THEN TRUE
    ELSE IF Head(a) > Head(b) THEN FALSE
    ELSE TextLE(Tail(a), Tail(b))

\* x BETWEEN lo AND hi: both ends included
BETWEEN(x, lo, hi) == TextLE(lo, x) /\ TextLE(x, hi)

\* SQLite DATE(text): the 'YYYY-MM-DD' part
DATE(text) == SubSeq(text, 1, 1)

\* MIN(col) / MAX(col) over a set of texts, NULL over no rows
TextMin(S) == IF S = {} THEN NullDate ELSE CHOOSE x \in S : \A y \in S : TextLE(x, y)
TextMax(S) == IF S = {} THEN NullDate ELSE CHOOSE x \in S : \A y \in S : TextLE(y, x)

\* dict.get(key) on a metadata dict
Get(metadata, key) == IF key \in DOMAIN metadata THEN metadata[key] ELSE NULL

\* json.dumps(dict): the key/value pairs of the dict as text
json_dumps(metadata) == {<<k, metadata[k]>> : k \in DOMAIN metadata}

\* start_date_iso / end_date_iso of insert_health_record (a value without
\* isoformat, None for one, is handed on as it is)
DateIso(date) ==
    IF date = None THEN NullDate
    ELSE IF "iso" \in DOMAIN date THEN date.iso
    ELSE isoformat(date)
StartDateIso(record) == DateIso(record.start_date)
EndDateIso(record) == DateIso(record.end_date)

----------------------------------------------------------------------------
(* The schema.                                                             *)

\* the four empty tables of a new file; seq is sqlite_sequence's entry for
\* health_records (AUTOINCREMENT)
EmptyDatabase ==
    [health_records |-> {}, workouts |-> {}, sources |-> {},
     record_types |-> {}, seq |-> 0]

\* the natural key of a stored row
NaturalKey(row) == <<row.record_type, row.source, row.start_date, row.end_date>>

\* UNIQUE(record_type, source, start_date, end_date): two rows conflict when
\* all four columns are equal and none of them is NULL (SQLite treats NULLs
\* as distinct from each other in a UNIQUE constraint)
UniqueConflict(rows, new) ==
    \E row \in rows :
        /\ NaturalKey(row) = NaturalKey(new)
        /\ new.end_date # NullDate

----------------------------------------------------------------------------
(* Category inference.                                                     *)

\* the characters of the type names that occur in the model
Spell(name) ==
    CASE name = "HeartRate" ->
            <<"H", "e", "a", "r", "t", "R", "a", "t", "e">>
      [] name = "StepCount" ->
            <<"S", "t", "e", "p", "C", "o", "u", "n", "t">>
      [] name = "Workout:Running" ->
            <<"W", "o", "r", "k", "o", "u", "t", ":",
              "R", "u", "n", "n", "i", "n", "g">>
      [] name = "Workout:Yoga" ->
            <<"W", "o", "r", "k", "o", "u", "t", ":", "Y", "o", "g", "a">>
      [] name = "RestingHeartRate" ->
            <<"R", "e", "s", "t", "i", "n", "g",
              "H", "e", "a", "r", "t", "R", "a", "t", "e">>
      [] name = "AppleExerciseTime" ->
            <<"A", "p", "p", "l", "e", "E", "x", "e", "r", "c", "i", "s", "e",
              "T", "i", "m", "e">>
      [] name = "SleepAnalysis" ->
            <<"S", "l", "e", "e", "p", "A", "n", "a", "l", "y", "s", "i", "s">>
      [] name = "DietaryWater" ->
            <<"D", "i", "e", "t", "a", "r", "y", "W", "a", "t", "e", "r">>
      [] name = "BodyMass" -> <<"B", "o", "d", "y", "M", "a", "s", "s">>
      [] name = "heart" -> <<"h", "e", "a", "r", "t">>
      [] name = "pulse" -> <<"p", "u", "l", "s", "e">>
      [] name = "blood" -> <<"b", "l", "o", "o", "d">>
      [] name = "step" -> <<"s", "t", "e", "p">>
      [] name = "walk" -> <<"w", "a", "l", "k">>
      [] name = "run" -> <<"r", "u", "n">>
      [] name = "distance" -> <<"d", "i", "s", "t", "a", "n", "c", "e">>
      [] name = "workout" -> <<"w", "o", "r", "k", "o", "u", "t">>
      [] name = "exercise" -> <<"e", "x", "e", "r", "c", "i", "s", "e">>
      [] name = "sleep" -> <<"s", "l", "e", "e", "p">>
      [] name = "rest" -> <<"r", "e", "s", "t">>
      [] name = "nutrition" ->
            <<"n", "u", "t", "r", "i", "t", "i", "o", "n">>
      [] name = "food" -> <<"f", "o", "o", "d">>
      [] name = "water" -> <<"w", "a", "t", "e", "r">>

\* str.lower() on one character
LowerChar(c) ==
    CASE c = "H" -> "h" [] c = "R" -> "r" [] c = "S" -> "s" [] c = "C" -> "c"
      [] c = "W" -> "w" [] c = "Y" -> "y" [] c = "A" -> "a" [] c = "E" -> "e"
      [] c = "T" -> "t" [] c = "D" -> "d" [] c = "B" -> "b" [] c = "M" -> "m"
      [] OTHER -> c

\* str.lower()
Lower(chars) == [i \in 1..Len(chars) |-> LowerChar(chars[i])]

\* keyword in record_type_lower
Contains(chars, keyword) ==
    \E i \in 0..(Len(chars) - Len(keyword)) :
        SubSeq(chars, i + 1, i + Len(keyword)) = keyword

\* any(keyword in record_type_lower for keyword in keywords)
AnyKeyword(chars, keywords) ==
    \E k \in keywords : Contains(chars, Spell(k))

\* the rule table with the Fitness rule moved to the front
_infer_category_from_type_fitness_first(record_type) ==
    LET record_type_lower == Lower(Spell(record_type)) IN
    IF AnyKeyword(record_type_lower, {"workout", "exercise"})
        THEN "Fitness"
    ELSE IF AnyKeyword(record_type_lower, {"heart", "pulse", "blood"})
        THEN "Vital Signs"
    ELSE IF AnyKeyword(record_type_lower, {"step", "walk", "run", "distance"})
        THEN "Activity"
    ELSE IF AnyKeyword(record_type_lower, {"sleep", "rest"})
        THEN "Sleep"
    ELSE IF AnyKeyword(record_type_lower, {"nutrition", "food", "water"})
        THEN "Nutrition"
    ELSE "Other"

\* _infer_category_from_type, lines 311-326
_infer_category_from_type(record_type) ==
    LET record_type_lower == Lower(Spell(record_type)) IN
    IF AnyKeyword(record_type_lower, {"heart", "pulse", "blood"})
        THEN "Vital Signs"
    ELSE IF AnyKeyword(record_type_lower, {"step", "walk", "run", "distance"})
        THEN "Activity"
    ELSE IF AnyKeyword(record_type_lower, {"workout", "exercise"})
        THEN "Fitness"
    ELSE IF AnyKeyword(record_type_lower, {"sleep", "rest"})
        THEN "Sleep"
    ELSE IF AnyKeyword(record_type_lower, {"nutrition", "food", "water"})
        THEN "Nutrition"
    ELSE "Other"

----------------------------------------------------------------------------
(* The SQL statements of the write path, as functions of the content t     *)
(* that the connection sees.                                               *)

\* record_type TEXT NOT NULL, source TEXT NOT NULL, start_date DATETIME NOT
\* NULL
NotNullViolation(row) ==
    \/ row.record_type = NULL
    \/ row.source = NULL
    \/ row.start_date = NullDate

\* the row that INSERT OR IGNORE INTO health_records would add
NewRecordRow(t, record) ==
    [id            |-> t.seq + 1,
     record_type   |-> record.record_type,
     source        |-> record.source,
     unit          |-> record.unit,
     value         |-> record.value,
     start_date    |-> StartDateIso(record),
     end_date      |-> EndDateIso(record),
     metadata_json |-> json_dumps(record.metadata)]

\* the statement as INSERT OR REPLACE: a conflicting row gives way to the
\* new one
InsertOrReplaceRecord(t, record) ==
    LET row == NewRecordRow(t, record)
    IN [t EXCEPT !.seq = row.id,
                 !.health_records =
                    {r \in @ : ~UniqueConflict({r}, row)} \cup {row}]

\* INSERT OR IGNORE INTO health_records: a row that violates the UNIQUE or a
\* NOT NULL constraint is dropped (OR IGNORE covers both); the AUTOINCREMENT
\* counter advances either way
InsertOrIgnoreRecord(t, record) ==
    LET row == NewRecordRow(t, record) IN
    IF NotNullViolation(row) \/ UniqueConflict(t.health_records, row)
        THEN [t EXCEPT !.seq = row.id]
        ELSE [t EXCEPT !.seq = row.id, !.health_records = @ \cup {row}]

\* cursor.lastrowid after the INSERT OR IGNORE on a connection that has
\* inserted nothing before: the new rowid, or 0 when the row was ignored
LastRowId(t, record) ==
    LET row == NewRecordRow(t, record) IN
    IF NotNullViolation(row) \/ UniqueConflict(t.health_records, row)
        THEN 0 ELSE row.id

\* COALESCE with its arguments exchanged: a stored value is kept
COALESCE_stored_first(new, old) == IF old # NULL THEN old ELSE new

\* COALESCE(new, old)
COALESCE(new, old) == IF new # NULL THEN new ELSE old

\* the UPDATE without COALESCE: version and device are overwritten with
\* what the metadata holds, NULL included
_update_source_info_overwriting(t, source_name, metadata, now) ==
    [t EXCEPT !.sources =
        {s \in @ : s.name # source_name} \cup
        {[name       |-> source_name,
          version    |-> Get(metadata, "sourceVersion"),
          device     |-> Get(metadata, "device"),
          first_seen |-> IF \E s \in t.sources : s.name = source_name
                            THEN (CHOOSE s \in t.sources : s.name = source_name).first_seen
                            ELSE now,
          last_seen  |-> now]}]

_update_source_info(t, source_name, metadata, now) ==
    IF \E s \in t.sources : s.name = source_name
        THEN [t EXCEPT !.sources =
                {IF s.name = source_name
                    THEN [s EXCEPT
                            !.version = COALESCE(Get(metadata, "sourceVersion"), @),
                            !.device = COALESCE(Get(metadata, "device"), @),
                            !.last_seen = now]
                    ELSE s : s \in @}]
        ELSE [t EXCEPT !.sources = @ \cup
                {[name       |-> source_name,
                  version    |-> Get(metadata, "sourceVersion"),
                  device     |-> Get(metadata, "device"),
                  first_seen |-> now,
                  last_seen  |-> now]}]

\* the type registered with INSERT OR REPLACE INTO record_types (type_name):
\* a type seen again loses its category
_update_record_type_info_replacing(t, record_type) ==
    [t EXCEPT !.record_types =
        {rt \in @ : rt.type_name # record_type} \cup
        {[type_name |-> record_type,
          category  |-> IF \E rt \in t.record_types : rt.type_name = record_type
                            THEN NULL
                            ELSE _infer_category_from_type(record_type)]}]

_update_record_type_info(t, record_type) ==
    IF \E rt \in t.record_types : rt.type_name = record_type
        THEN t
        ELSE [t EXCEPT !.record_types = @ \cup
                {[type_name |-> record_type,
                  category  |-> _infer_category_from_type(record_type)]}]

\* the health_record dict that insert_workout builds
WorkoutHealthRecord(workout) ==
    [record_type |-> "Workout:" \o workout.workout_type,
     source      |-> workout.source,
     unit        |-> workout.duration_unit,
     value       |-> workout.duration,
     start_date  |-> workout.start_date,
     end_date    |-> workout.end_date,
     metadata    |-> workout.metadata]

\* INSERT OR REPLACE INTO workouts: id is the primary key, a row with the
\* same id is replaced
InsertOrReplaceWorkout(t, record_id, workout) ==
    LET row == [id            |-> record_id,
                workout_type  |-> workout.workout_type,
                source        |-> workout.source,
                duration      |-> workout.duration,
                duration_unit |-> workout.duration_unit,
                start_date    |-> isoformat(workout.start_date),
                end_date      |-> isoformat(workout.end_date),
                total_distance           |-> workout.total_distance,
                total_distance_unit      |-> workout.total_distance_unit,
                total_energy_burned      |-> workout.total_energy_burned,
                total_energy_burned_unit |-> workout.total_energy_burned_unit,
                metadata_json |-> json_dumps(workout.metadata)]
    IN [t EXCEPT !.workouts = {w \in @ : w.id # record_id} \cup {row}]

\* DELETE FROM <table>
DeleteFrom(t, table) == [t EXCEPT ![table] = {}]

----------------------------------------------------------------------------
(* The read path.                                                          *)

\* get_database_stats: the four counts and MIN / MAX of start_date; the
\* date range stays None / None unless both ends are non-empty
get_database_stats(t) ==
    LET lo == TextMin({r.start_date : r \in t.health_records})
        hi == TextMax({r.start_date : r \in t.health_records})
    IN [total_records      |-> Cardinality(t.health_records),
        total_workouts     |-> Cardinality(t.workouts),
        total_sources      |-> Cardinality(t.sources),
        total_record_types |-> Cardinality(t.record_types),
        date_range         |->
            IF lo # NullDate /\ hi # NullDate
                THEN [start |-> lo, end |-> hi]
                ELSE [start |-> NullDate, end |-> NullDate]]

\* 2^n
RECURSIVE Pow2(_)
Pow2(n) == IF n = 0 THEN 1 ELSE 2 * Pow2(n - 1)

\* num / den rounded to an integer, a tie going to the even neighbour
RoundHalfEven(num, den) ==
    LET q == num \div den
        r == num % den
    IN IF 2 * r > den \/ (2 * r = den /\ q % 2 = 1) THEN q + 1 ELSE q

\* the REAL nearest to num / den (num >= 0, den > 0): the quotient is
\* scaled by 2^k so that its integer part has MantissaBits bits, rounded,
\* and scaled back; the result is a fraction whose den is a power of two
Float(num, den) ==
    IF num = 0 THEN [num |-> 0, den |-> 1]
    ELSE LET N(k) == IF k >= 0 THEN num * Pow2(k) ELSE num
             D(k) == IF k >= 0 THEN den ELSE den * Pow2(-k)
             k == CHOOSE i \in (0 - MantissaBits - 4)..(MantissaBits + 4) :
                      /\ Pow2(MantissaBits - 1) * D(i) <= N(i)
                      /\ N(i) < Pow2(MantissaBits) * D(i)
             m == RoundHalfEven(N(k), D(k))
         IN IF k >= 0 THEN [num |-> m, den |-> Pow2(k)]
                      ELSE [num |-> m * Pow2(-k), den |-> 1]

\* SUM(value) over a set of rows of whole-numbered values: a REAL
\* accumulator, each addition rounded, the rows taken in rowid order
RECURSIVE SumValues(_)
SumValues(rows) ==
    IF rows = {} THEN 0
    ELSE LET r == CHOOSE x \in rows : \A y \in rows : x.id >= y.id
             sum == Float(SumValues(rows \ {r}) + r.value, 1)
         IN sum.num \div sum.den

\* AVG(value): the REAL quotient SUM / COUNT
AVG(rows) == Float(SumValues(rows), Cardinality(rows))

\* MIN(value) / MAX(value) over a non-empty group
MIN(rows) == CHOOSE v \in {r.value : r \in rows} : \A r \in rows : v <= r.value
MAX(rows) == CHOOSE v \in {r.value : r \in rows} : \A r \in rows : v >= r.value

\* ORDER BY date: the rows as a list, smallest date first
RECURSIVE OrderByDate(_)
OrderByDate(rows) ==
    IF rows = {} THEN << >>
    ELSE LET first == CHOOSE x \in rows : \A y \in rows : TextLE(x.date, y.date)
         IN <<first>> \o OrderByDate(rows \ {first})

\* the daily query grouping on start_date instead of DATE(start_date)
get_daily_aggregates_by_timestamp(t, record_type, start_date, end_date) ==
    LET matching == {r \in t.health_records :
                        /\ r.record_type = record_type
                        /\ BETWEEN(r.start_date, isoformat(start_date),
                                   isoformat(end_date))}
        Group(d) == {r \in matching : r.start_date = d}
    IN OrderByDate({[date      |-> DATE(d),
                     avg_value |-> AVG(Group(d)),
                     min_value |-> MIN(Group(d)),
                     max_value |-> MAX(Group(d)),
                     count     |-> Cardinality(Group(d))] :
                    d \in {r.start_date : r \in matching}})

\* get_daily_aggregates, lines 394-407: WHERE record_type = ? AND start_date
\* BETWEEN ? AND ? GROUP BY DATE(start_date) ORDER BY date
get_daily_aggregates(t, record_type, start_date, end_date) ==
    LET matching == {r \in t.health_records :
                        /\ r.record_type = record_type
                        /\ BETWEEN(r.start_date, isoformat(start_date),
                                   isoformat(end_date))}
        Group(d) == {r \in matching : DATE(r.start_date) = d}
    IN OrderByDate({[date      |-> d,
                     avg_value |-> AVG(Group(d)),
                     min_value |-> MIN(Group(d)),
                     max_value |-> MAX(Group(d)),
                     count     |-> Cardinality(Group(d))] :
                    d \in {DATE(r.start_date) : r \in matching}})

\* ORDER BY start_date: the rows as a list, smallest start_date first, rows
\* of equal start_date in rowid order
RECURSIVE OrderByStartDate(_)
OrderByStartDate(rows) ==
    IF rows = {} THEN << >>
    ELSE LET first == CHOOSE x \in rows : \A y \in rows :
                          \/ x.start_date # y.start_date /\ TextLE(x.start_date, y.start_date)
                          \/ x.start_date = y.start_date /\ x.id <= y.id
         IN <<first>> \o OrderByStartDate(rows \ {first})

\* get_records_by_date_range, lines 363-378: WHERE [record_type = ? AND]
\* start_date BETWEEN ? AND ? ORDER BY start_date; the filter on the type
\* is left out when record_type is None
get_records_by_date_range(t, start_date, end_date, record_type) ==
    OrderByStartDate({r \in t.health_records :
        /\ record_type # NULL => r.record_type = record_type
        /\ BETWEEN(r.start_date, isoformat(start_date), isoformat(end_date))})

----------------------------------------------------------------------------
(* The state machine.                                                      *)

NoCall == [op |-> "none"]
NoArg == "none"

\* datetime.now().isoformat()
NowIso == <<clock>>

Init ==
    /\ db = EmptyDatabase
    /\ tx = EmptyDatabase
    /\ pc = "idle"
    /\ call = NoCall
    /\ backup = [exists |-> FALSE, content |-> EmptyDatabase]
    /\ clock = 0
    /\ ret = [op |-> "none", arg |-> NoArg, status |-> "none", value |-> 0]

\* a method returns: the connection is closed, the frame is dropped
Return(value) ==
    /\ ret' = [op |-> call.op, arg |-> call.arg, status |-> "ok", value |-> value]
    /\ call' = NoCall
    /\ pc' = "idle"

\* a statement raises: the exception leaves the method, the connection is
\* closed without commit (lines 141-145) and the transaction is lost
Raise(error) ==
    /\ ret' = [op |-> call.op, arg |-> call.arg, status |-> "error", value |-> error]
    /\ tx' = db
    /\ call' = NoCall
    /\ pc' = "idle"

\* insert_health_record, lines 156-185: a connection is opened and the
\* INSERT OR IGNORE runs inside a new transaction; record_id = lastrowid.
\* op is the public method that was called, arg its argument.
BeginInsert(op, arg, record) ==
    /\ pc = "idle"
    /\ clock < MaxClock
    /\ call' = [op |-> op, arg |-> arg, record |-> record, pre |-> db,
                record_id |-> LastRowId(db, record)]
    /\ tx' = InsertOrIgnoreRecord(db, record)
    /\ pc' = "ihr_source"
    /\ UNCHANGED <<db, backup, clock, ret>>

insert_health_record(record) ==
    BeginInsert("insert_health_record", record, record)

\* insert_workout, lines 205-216: the health record is inserted first
insert_workout(workout) ==
    BeginInsert("insert_workout", workout, WorkoutHealthRecord(workout))

\* ihr_source on a connection in autocommit mode: the statement is written
\* to the file at once
ihr_source_autocommit ==
    /\ pc = "ihr_source"
    /\ tx' = _update_source_info(tx, call.record.source, call.record.metadata, NowIso)
    /\ db' = tx'
    /\ clock' = clock + 1
    /\ pc' = "ihr_type"
    /\ UNCHANGED <<call, backup, ret>>

\* line 188: self._update_source_info(conn, ...); a source of None matches
\* no row and the INSERT INTO sources fails on name TEXT NOT NULL
ihr_source ==
    /\ pc = "ihr_source"
    /\ clock' = clock + 1
    /\ IF call.record.source = NULL
          THEN Raise("IntegrityError")
          ELSE /\ tx' = _update_source_info(tx, call.record.source,
                                            call.record.metadata, NowIso)
               /\ pc' = "ihr_type"
               /\ UNCHANGED <<call, ret>>
    /\ UNCHANGED <<db, backup>>

\* ihr_type with the registration of the record type left out
ihr_type_skipped ==
    /\ pc = "ihr_type"
    /\ pc' = "ihr_commit"
    /\ UNCHANGED <<db, tx, call, backup, clock, ret>>

\* line 191: self._update_record_type_info(conn, ...); a record_type of
\* None matches no row and record_type.lower() (line 313) fails
ihr_type ==
    /\ pc = "ihr_type"
    /\ IF call.record.record_type = NULL
          THEN Raise("AttributeError")
          ELSE /\ tx' = _update_record_type_info(tx, call.record.record_type)
               /\ pc' = "ihr_commit"
               /\ UNCHANGED <<call, ret>>
    /\ UNCHANGED <<db, backup, clock>>

\* lines 193-194: conn.commit(); return record_id.  Inside insert_workout
\* the caller goes on to its own connection (line 219).
ihr_commit ==
    /\ pc = "ihr_commit"
    /\ db' = tx
    /\ tx' = tx
    /\ IF call.op = "insert_health_record"
          THEN Return(call.record_id)
          ELSE /\ pc' = "iw_insert"
               /\ UNCHANGED <<call, ret>>
    /\ UNCHANGED <<backup, clock>>

\* lines 219-250: INSERT OR REPLACE INTO workouts on a second connection
iw_insert ==
    /\ pc = "iw_insert"
    /\ tx' = InsertOrReplaceWorkout(db, call.record_id, call.arg)
    /\ pc' = "iw_commit"
    /\ UNCHANGED <<db, call, backup, clock, ret>>

\* lines 252-253: conn.commit(); return record_id
iw_commit ==
    /\ pc = "iw_commit"
    /\ db' = tx
    /\ tx' = tx
    /\ Return(call.record_id)
    /\ UNCHANGED <<backup, clock>>

\* clear_database, lines 524-531: the PRAGMA changes no data; the first
\* DELETE opens the transaction
clear_database ==
    /\ pc = "idle"
    /\ call' = [op |-> "clear_database", arg |-> NoArg, pre |-> db]
    /\ tx' = DeleteFrom(db, "workouts")
    /\ pc' = "clr_records"
    /\ UNCHANGED <<db, backup, clock, ret>>

\* clr_records on a connection in autocommit mode
clr_records_autocommit ==
    /\ pc = "clr_records"
    /\ tx' = DeleteFrom(tx, "health_records")
    /\ db' = tx'
    /\ pc' = "clr_sources"
    /\ UNCHANGED <<call, backup, clock, ret>>

\* line 532
clr_records ==
    /\ pc = "clr_records"
    /\ tx' = DeleteFrom(tx, "health_records")
    /\ pc' = "clr_sources"
    /\ UNCHANGED <<db, call, backup, clock, ret>>

\* line 533
clr_sources ==
    /\ pc = "clr_sources"
    /\ tx' = DeleteFrom(tx, "sources")
    /\ pc' = "clr_types"
    /\ UNCHANGED <<db, call, backup, clock, ret>>

\* clr_types with the DELETE FROM record_types left out
clr_types_skipped ==
    /\ pc = "clr_types"
    /\ pc' = "clr_commit"
    /\ UNCHANGED <<db, tx, call, backup, clock, ret>>

\* line 534
clr_types ==
    /\ pc = "clr_types"
    /\ tx' = DeleteFrom(tx, "record_types")
    /\ pc' = "clr_commit"
    /\ UNCHANGED <<db, call, backup, clock, ret>>

\* lines 537-539: the PRAGMA is a no-op inside the transaction; conn.commit()
clr_commit ==
    /\ pc = "clr_commit"
    /\ db' = tx
    /\ tx' = tx
    /\ Return(0)
    /\ UNCHANGED <<backup, clock>>

\* process-level interruption between two statements: the connection is
\* closed without commit (_get_connection, lines 144-145) and what it had
\* not committed is lost
Interrupt ==
    /\ pc # "idle"
    /\ ret' = [op |-> call.op, arg |-> call.arg, status |-> "interrupted",
               value |-> pc]
    /\ tx' = db
    /\ call' = NoCall
    /\ pc' = "idle"
    /\ UNCHANGED <<db, backup, clock>>

\* a method that touches no transaction returns
Finished(op, arg, value) ==
    /\ ret' = [op |-> op, arg |-> arg, status |-> "ok", value |-> value]
    /\ UNCHANGED <<call, pc>>

\* backup_database, lines 547-550: shutil.copy2(self.db_path, backup_path)
backup_database ==
    /\ pc = "idle"
    /\ backup' = [exists |-> TRUE, content |-> db]
    /\ Finished("backup_database", NoArg, 0)
    /\ UNCHANGED <<db, tx, clock>>

\* the copy made without the test of backup_path.exists(): a missing file
\* leaves a store without rows
RestoredContent_unguarded(t, file) ==
    IF file.exists THEN file.content ELSE EmptyDatabase

\* lines 560-562: if backup_path.exists(): shutil.copy2(backup_path,
\* self.db_path); the content of the database file after the call
RestoredContent(t, file) ==
    IF file.exists THEN file.content ELSE t

\* restore that adds the rows of the backup to the tables of the store
restore_database_merging ==
    /\ pc = "idle"
    /\ IF backup.exists
          THEN db' = [db EXCEPT
                        !.health_records = @ \cup backup.content.health_records,
                        !.workouts = @ \cup backup.content.workouts,
                        !.sources = @ \cup backup.content.sources,
                        !.record_types = @ \cup backup.content.record_types]
          ELSE db' = db
    /\ tx' = db'
    /\ Finished("restore_database", NoArg, 0)
    /\ UNCHANGED <<backup, clock>>

\* restore_database, lines 558-562: if backup_path.exists():
\* shutil.copy2(backup_path, self.db_path)
restore_database ==
    /\ pc = "idle"
    /\ db' = RestoredContent(db, backup)
    /\ tx' = db'
    /\ Finished("restore_database", NoArg, 0)
    /\ UNCHANGED <<backup, clock>>

\* a call of get_daily_aggregates: the store is read, not written
query_daily_aggregates(record_type, start_date, end_date) ==
    /\ pc = "idle"
    /\ Finished("get_daily_aggregates", <<record_type, start_date, end_date>>,
                get_daily_aggregates(db, record_type, start_date, end_date))
    /\ UNCHANGED <<db, tx, backup, clock>>

\* a call of get_records_by_date_range: the store is read, not written
query_records_by_date_range(start_date, end_date, record_type) ==
    /\ pc = "idle"
    /\ Finished("get_records_by_date_range", <<start_date, end_date, record_type>>,
                get_records_by_date_range(db, start_date, end_date, record_type))
    /\ UNCHANGED <<db, tx, backup, clock>>

\* the statements that continue a running insert_health_record
InsertStep ==
    \/ ihr_source
    \/ ihr_type
    \/ ihr_commit

\* the statements that continue a running method
Step ==
    \/ InsertStep
    \/ iw_insert
    \/ iw_commit
    \/ clr_records
    \/ clr_sources
    \/ clr_types
    \/ clr_commit

----------------------------------------------------------------------------
(* The store under ingestion, reset and interruption.                      *)

\* records handed to insert_health_record
RecordInputs ==
    [record_type : {"HeartRate", "StepCount"},
     source      : {"Watch", "Phone"},
     unit        : {"count"},
     value       : {72},
     start_date  : {Datetime(0, 0)},
     end_date    : {None, Datetime(0, 0)},
     metadata    : {EmptyDict}]

\* workouts handed to insert_workout
WorkoutInputs ==
    [workout_type  : {"Running"},
     source        : {"Watch"},
     duration      : {30, 45},
     duration_unit : {"min"},
     start_date    : {Datetime(1, 0)},
     end_date      : {Datetime(1, 1)},
     total_distance           : {Real(5)},
     total_distance_unit      : {"km"},
     total_energy_burned      : {NullReal},
     total_energy_burned_unit : {NULL},
     metadata      : {EmptyDict}]

Next ==
    \/ \E record \in RecordInputs : insert_health_record(record)
    \/ \E workout \in WorkoutInputs : insert_workout(workout)
    \/ clear_database
    \/ Step
    \/ Interrupt

Spec == Init /\ [][Next]_vars

----------------------------------------------------------------------------
(* Properties of the store.                                                *)

\* the key/type/source of the record a running insert is storing
CallRow == NewRecordRow(call.pre, call.record)

IsInsert(op) == op \in {"insert_health_record", "insert_workout"}

\* C1: two inserts with the same natural key (record_type, source,
\* start_date, end_date), end_date present or NULL, leave exactly one row
\* with that key: no two rows of health_records share a natural key.
C1_OneRowPerNaturalKey ==
    \A r1, r2 \in db.health_records :
        NaturalKey(r1) = NaturalKey(r2) => r1 = r2

\* C2: ingesting the same batch a second time leaves get_database_stats as
\* the first pass left it.  Stated for a batch of one call: when a call
\* returns that repeats the call that returned just before it, the
\* statistics are those at the start of the repeated call.
C2_SecondPassKeepsStats ==
    [][(/\ IsInsert(call.op)
        /\ pc' = "idle"
        /\ ret'.status = "ok"
        /\ ret.status = "ok"
        /\ ret.op = call.op
        /\ ret.arg = call.arg)
       => get_database_stats(db') = get_database_stats(call.pre)]_vars

\* C3: every row of workouts has a health_records row with the same id.
C3_WorkoutHasBackingRecord ==
    \A w \in db.workouts : \E r \in db.health_records : r.id = w.id

\* C4: insert_health_record with a natural key that is already stored
\* leaves health_records unchanged and returns the id of the stored row.
\* Stated for records with an end_date, the keys the UNIQUE constraint
\* does compare.
C4_ConflictReturnsExistingId ==
    [][(/\ call.op = "insert_health_record"
        /\ call.record.end_date # None
        /\ pc' = "idle"
        /\ ret'.status = "ok"
        /\ \E row \in call.pre.health_records :
                NaturalKey(row) = NaturalKey(CallRow))
       => /\ db'.health_records = call.pre.health_records
          /\ \E row \in call.pre.health_records :
                /\ NaturalKey(row) = NaturalKey(CallRow)
                /\ ret'.value = row.id]_vars

\* C5: insert_workout is atomic: between calls, also after an interrupted
\* call, no committed 'Workout:<type>' record is without its workouts row.
C5_WorkoutInsertAtomic ==
    pc = "idle" =>
        \A r \in db.health_records :
            (\E w \in WorkoutInputs : r.record_type = "Workout:" \o w.workout_type)
                => \E w \in db.workouts : w.id = r.id

\* the record row, the source row and the record-type row of the running
\* insert are all in the content t
InsertVisible(t) ==
    /\ \E r \in t.health_records : NaturalKey(r) = NaturalKey(CallRow)
    /\ \E s \in t.sources : s.name = call.record.source
    /\ \E rt \in t.record_types : rt.type_name = call.record.record_type

\* C6: insert_health_record is all-or-nothing: while it runs the file
\* either stays as it was at the call, or (at the commit) shows the record
\* row, the source row and the record-type row together; an interrupted
\* insert leaves the file as it was.
C6_InsertRecordAllOrNothing ==
    [][(IsInsert(call.op) /\ pc \in {"ihr_source", "ihr_type", "ihr_commit"})
       => /\ db' = call.pre \/ (pc = "ihr_commit" /\ InsertVisible(db'))
          /\ ret'.status = "interrupted" /\ pc' = "idle" => db' = call.pre]_vars

\* an insert of a record that is not stored yet was interrupted just before
\* its commit, with all three statements executed
C6_Witness ==
    /\ pc = "idle"
    /\ ret.op = "insert_health_record"
    /\ ret.status = "interrupted"
    /\ ret.value = "ihr_commit"
    /\ \A r \in db.health_records : r.record_type # ret.arg.record_type

ZeroStats ==
    [total_records |-> 0, total_workouts |-> 0, total_sources |-> 0,
     total_record_types |-> 0,
     date_range |-> [start |-> NullDate, end |-> NullDate]]

\* C7: after clear_database has returned, get_database_stats reports zero
\* records, workouts, sources and record types and an empty date range.
C7_ClearGivesZeroStats ==
    (pc = "idle" /\ ret.op = "clear_database" /\ ret.status = "ok")
        => get_database_stats(db) = ZeroStats

\* clear_database has returned on a file into which rows had been inserted
C7_Witness ==
    /\ pc = "idle"
    /\ ret.op = "clear_database"
    /\ ret.status = "ok"
    /\ db.seq >= 2

AllFourEmpty(t) ==
    /\ t.workouts = {}
    /\ t.health_records = {}
    /\ t.sources = {}
    /\ t.record_types = {}

\* C8: clear_database is atomic: while it runs the file either is as it
\* was at the call or has all four tables empty, and an interrupted clear
\* leaves the file as it was.
C8_ClearAtomic ==
    [][call.op = "clear_database"
       => /\ db' = call.pre \/ (pc = "clr_commit" /\ AllFourEmpty(db'))
          /\ ret'.status = "interrupted" /\ pc' = "idle" => db' = call.pre]_vars

\* a clear of a file holding records, workouts, sources and record types was
\* interrupted after its four DELETEs
C8_Witness ==
    /\ pc = "idle"
    /\ ret.op = "clear_database"
    /\ ret.status = "interrupted"
    /\ ret.value = "clr_commit"
    /\ db.health_records # {}
    /\ db.workouts # {}
    /\ db.sources # {}
    /\ db.record_types # {}

----------------------------------------------------------------------------
(* The store with a backup file.                                           *)

BackupRecordInputs ==
    [record_type : {"HeartRate"},
     source      : {"Watch"},
     unit        : {"count"},
     value       : {72},
     start_date  : {Datetime(0, 0)},
     end_date    : {None, Datetime(0, 0)},
     metadata    : {EmptyDict}]

BackupWorkoutInputs == {w \in WorkoutInputs : w.duration = 30}

NextBackup ==
    \/ \E record \in BackupRecordInputs : insert_health_record(record)
    \/ \E workout \in BackupWorkoutInputs : insert_workout(workout)
    \/ clear_database
    \/ Step
    \/ backup_database
    \/ restore_database

SpecBackup == Init /\ [][NextBackup]_vars

\* C9: after backup_database, any inserts and clears, and restore_database
\* from the backup, the four tables hold exactly the rows of the backup:
\* the restore replaces the content, rows added since are gone.
C9_RestoreReplaces ==
    (pc = "idle" /\ ret.op = "restore_database" /\ ret.status = "ok"
     /\ backup.exists)
        => /\ db.health_records = backup.content.health_records
           /\ db.workouts = backup.content.workouts
           /\ db.sources = backup.content.sources
           /\ db.record_types = backup.content.record_types

\* a restore has returned on a store that had received an insert after the
\* backup was taken (the clock counts the inserts, seq those of the file)
C9_Witness ==
    /\ pc = "idle"
    /\ ret.op = "restore_database"
    /\ ret.status = "ok"
    /\ backup.exists
    /\ db.health_records # {}
    /\ db.workouts # {}
    /\ db.seq < clock

----------------------------------------------------------------------------
(* Queries on an ingested store: a batch of inserts, then the queries.     *)

QueryDatetimes == {Datetime(d, t) : d \in 0..MaxDay, t \in 0..MaxTod}

QueryRecordInputs ==
    {r \in [record_type : {"HeartRate", "StepCount"},
            source      : {"Watch"},
            unit        : {"count"},
            value       : {72, 80},
            start_date  : QueryDatetimes,
            end_date    : {None},
            metadata    : {EmptyDict}] :
        r.record_type = "StepCount" => r.value = 72}

\* the ingestion run first, then one query on the store it has left (a
\* query does not change the store, a second one would read the same rows)
BatchDone == ret.op = "get_daily_aggregates"

NextQuery ==
    \/ /\ ~BatchDone
       /\ clock < MaxQueryInserts
       /\ \E record \in QueryRecordInputs : insert_health_record(record)
    \/ InsertStep
    \/ /\ ~BatchDone
       /\ \E record_type \in {"HeartRate", "StepCount"} :
          \E start_date \in QueryDatetimes, end_date \in QueryDatetimes :
               query_daily_aggregates(record_type, start_date, end_date)

SpecQuery == Init /\ [][NextQuery]_vars

\* position of a stored start_date / of a datetime on the time line
TimeOfText(text) == text[1] * (MaxTod + 1) + text[2]
TimeOf(dt) == dt.day * (MaxTod + 1) + dt.tod

\* the records of the given type and day whose start_date lies between
\* start and end, both included
DayRecords(record_type, start_date, end_date, day) ==
    {r \in db.health_records :
        /\ r.record_type = record_type
        /\ TimeOf(start_date) <= TimeOfText(r.start_date)
        /\ TimeOfText(r.start_date) <= TimeOf(end_date)
        /\ r.start_date[1] = day}

\* the sum of the rows' values in exact arithmetic
RECURSIVE ExactSum(_)
ExactSum(rows) ==
    IF rows = {} THEN 0
    ELSE LET r == CHOOSE x \in rows : TRUE
         IN r.value + ExactSum(rows \ {r})

Abs(x) == IF x >= 0 THEN x ELSE 0 - x

\* avg is the mean of the rows' values as REAL arithmetic gives it: each
\* of its additions and its division is off by at most 2^-MantissaBits of
\* the result
IsMeanOf(avg, rows) ==
    LET n == Cardinality(rows)
    IN Abs(avg.num * n - ExactSum(rows) * avg.den) * Pow2(MantissaBits)
           <= (n + 1) * ExactSum(rows) * avg.den

C11_ScenarioA ==
    \A d \in 0..MaxDay :
        LET D == Datetime(d, 0)
            onDay == {r \in db.health_records :
                        r.record_type = "HeartRate" /\ DATE(r.start_date) = <<d>>}
        IN (/\ pc = "idle"
            /\ ret.op = "get_daily_aggregates"
            /\ ret.arg = <<"HeartRate", D, D>>
            /\ Cardinality(onDay) = 2
            /\ {r.value : r \in onDay} = {72, 80}
            /\ Cardinality({r.source : r \in onDay}) = 1)
           => /\ Len(ret.value) = 1
              /\ ret.value[1].date = <<d>>
              /\ ret.value[1].avg_value.num = 76 * ret.value[1].avg_value.den
              /\ ret.value[1].min_value = 72
              /\ ret.value[1].max_value = 80
              /\ ret.value[1].count = 2

----------------------------------------------------------------------------
(* Means of values that fill the whole mantissa.                           *)

MeanRecordInputs ==
    [record_type : {"HeartRate"},
     source      : {"Watch"},
     unit        : {"count"},
     value       : {174},
     start_date  : {Datetime(0, 0), Datetime(0, 1)},
     end_date    : {None},
     metadata    : {EmptyDict}]

NextMean ==
    \/ /\ ~BatchDone
       /\ \E record \in MeanRecordInputs : insert_health_record(record)
    \/ InsertStep
    \/ /\ ~BatchDone
       /\ \E start_date \in QueryDatetimes, end_date \in QueryDatetimes :
               query_daily_aggregates("HeartRate", start_date, end_date)

SpecMean == Init /\ [][NextMean]_vars

\* C12: the entries returned by get_daily_aggregates have strictly
\* increasing dates (no date twice), and in every entry
\* min_value <= avg_value <= max_value.
C12_OrderedAndBounded ==
    (pc = "idle" /\ ret.op = "get_daily_aggregates") =>
        LET entries == ret.value
        IN /\ \A i, j \in 1..Len(entries) :
                i < j => /\ TextLE(entries[i].date, entries[j].date)
                         /\ entries[i].date # entries[j].date
           /\ \A i \in 1..Len(entries) :
                /\ entries[i].min_value * entries[i].avg_value.den
                      <= entries[i].avg_value.num
                /\ entries[i].avg_value.num
                      <= entries[i].max_value * entries[i].avg_value.den

----------------------------------------------------------------------------
(* Range queries on an ingested store.                                     *)

RangeRecordInputs ==
    [record_type : {"HeartRate", "StepCount"},
     source      : {"Watch"},
     unit        : {"count"},
     value       : {72},
     start_date  : QueryDatetimes,
     end_date    : {None},
     metadata    : {EmptyDict}]

RangeDone == ret.op = "get_records_by_date_range"

NextRange ==
    \/ /\ ~RangeDone
       /\ clock < MaxQueryInserts
       /\ \E record \in RangeRecordInputs : insert_health_record(record)
    \/ InsertStep
    \/ /\ ~RangeDone
       /\ \E record_type \in {NULL, "HeartRate", "StepCount"} :
          \E start_date \in QueryDatetimes, end_date \in QueryDatetimes :
               query_records_by_date_range(start_date, end_date, record_type)

SpecRange == Init /\ [][NextRange]_vars

\* C13: get_records_by_date_range(start, end, type) returns exactly the
\* records whose start_date lies in the half-open window [start, end)
\* (start included, end excluded), of the given type only when a type is
\* given.
C13_HalfOpenWindow ==
    (pc = "idle" /\ ret.op = "get_records_by_date_range") =>
        {ret.value[i] : i \in 1..Len(ret.value)}
            = {r \in db.health_records :
                 /\ TimeOf(ret.arg[1]) <= TimeOfText(r.start_date)
                 /\ TimeOfText(r.start_date) < TimeOf(ret.arg[2])
                 /\ ret.arg[3] # NULL => r.record_type = ret.arg[3]}

----------------------------------------------------------------------------
(* The registries of record types and sources.                             *)

\* C14: the category of a record type is fixed at the first insert of the
\* type: whatever is inserted later, the record_types row of a type_name
\* keeps its category, and no type_name has more than one row.
C14_CategoryFixed ==
    [][/\ \A rt \in db.record_types : \A later \in db'.record_types :
            later.type_name = rt.type_name => later.category = rt.category
       /\ \A a, b \in db'.record_types : a.type_name = b.type_name => a = b]_vars

\* two types are registered, one of them by more than one insert
C14_Witness ==
    /\ pc = "idle"
    /\ Cardinality(db.record_types) >= 2
    /\ \E a, b \in db.health_records : a # b /\ a.record_type = b.record_type

\* records of one natural key that differ in value, unit and metadata, as
\* the test records carry them (device, sourceVersion)
UpsertRecordInputs ==
    {r \in [record_type : {"HeartRate"},
            source      : {"Watch", "Phone"},
            unit        : {"count", "bpm"},
            value       : {72, 80},
            start_date  : {Datetime(0, 0)},
            end_date    : {None, Datetime(0, 0)},
            metadata    : {EmptyDict,
                           [sourceVersion |-> "1.0"],
                           [sourceVersion |-> "2.0", device |-> "Watch6,1"]}] :
        /\ r.unit = "bpm" <=> r.value = 80
        /\ r.source = "Phone" => r.value = 72 /\ r.end_date # None}

NextUpsert ==
    \/ \E record \in UpsertRecordInputs : insert_health_record(record)
    \/ InsertStep

SpecUpsert == Init /\ [][NextUpsert]_vars

\* the step that commits a running insert_health_record
CommitsInsert ==
    /\ pc = "ihr_commit"
    /\ call.op = "insert_health_record"
    /\ pc' = "idle"
    /\ ret'.status = "ok"

\* C15: an insert_health_record whose natural key is already stored leaves
\* the stored row as it was: its value, unit, start_date, end_date and
\* metadata are those of the first insert.
C15_ConflictKeepsRow ==
    [][CommitsInsert =>
        \A row \in db.health_records :
            NaturalKey(row) = NaturalKey(CallRow) =>
                /\ row \in db'.health_records
                /\ \A other \in db'.health_records :
                        other.id = row.id => other = row]_vars

\* an insert was ignored whose value and metadata differ from the stored
\* row of its key
C15_Witness ==
    /\ pc = "idle"
    /\ ret.op = "insert_health_record"
    /\ ret.status = "ok"
    /\ ret.value = 0
    /\ \E row \in db.health_records :
            /\ row.record_type = ret.arg.record_type
            /\ row.source = ret.arg.source
            /\ row.start_date = StartDateIso(ret.arg)
            /\ row.end_date = EndDateIso(ret.arg)
            /\ row.value # ret.arg.value
            /\ row.unit # ret.arg.unit
            /\ row.metadata_json # json_dumps(ret.arg.metadata)

\* C16: a successful insert_health_record of a record with source s leaves
\* exactly one sources row named s (created if there was none; otherwise
\* a version / device of the metadata replaces the stored one, a missing
\* one keeps it, first_seen stays and last_seen is moved forward), and
\* exactly one record_types row of the record's type.
C16_SourceUpserted ==
    [][CommitsInsert =>
        LET metadata == call.record.metadata
            old == {s \in db.sources : s.name = call.record.source}
            new == {s \in db'.sources : s.name = call.record.source}
        IN /\ Cardinality(new) = 1
           /\ \A n \in new :
                /\ \A o \in old :
                      /\ n.version = IF Get(metadata, "sourceVersion") # NULL
                                         THEN Get(metadata, "sourceVersion")
                                         ELSE o.version
                      /\ n.device = IF Get(metadata, "device") # NULL
                                        THEN Get(metadata, "device")
                                        ELSE o.device
                      /\ n.first_seen = o.first_seen
                /\ old = {} =>
                      /\ n.version = Get(metadata, "sourceVersion")
                      /\ n.device = Get(metadata, "device")
                      /\ n.first_seen = n.last_seen
                /\ \A s \in db.sources :
                      TextLE(s.last_seen, n.last_seen) /\ s.last_seen # n.last_seen
           /\ Cardinality({rt \in db'.record_types :
                              rt.type_name = call.record.record_type}) = 1]_vars

\* a record without version and device was inserted for a source whose
\* row holds both from earlier inserts
C16_Witness ==
    /\ pc = "idle"
    /\ ret.op = "insert_health_record"
    /\ ret.status = "ok"
    /\ ret.arg.metadata = EmptyDict
    /\ \E s \in db.sources :
            /\ s.name = ret.arg.source
            /\ s.version # NULL
            /\ s.device # NULL
            /\ s.first_seen # s.last_seen
    /\ Cardinality(db.sources) = 2

----------------------------------------------------------------------------
(* Records with a missing column.                                          *)

NullRecordInputs ==
    [record_type : {"HeartRate", NULL},
     source      : {"Watch", NULL},
     unit        : {"count"},
     value       : {72},
     start_date  : {Datetime(0, 0), None},
     end_date    : {None, Datetime(0, 0)},
     metadata    : {EmptyDict}]

NextNull ==
    \/ \E record \in NullRecordInputs : insert_health_record(record)
    \/ InsertStep

SpecNull == Init /\ [][NextNull]_vars

\* C17: insert_health_record of a record that violates a constraint other
\* than the natural-key one (a null record_type, source or start_date)
\* raises an error and leaves health_records, sources and record_types as
\* they were; it is never silently ignored.
C17_ConstraintViolationRaises ==
    [][(/\ call.op = "insert_health_record"
        /\ pc' = "idle"
        /\ NotNullViolation(CallRow))
       => /\ ret'.status = "error"
          /\ db'.health_records = call.pre.health_records
          /\ db'.sources = call.pre.sources
          /\ db'.record_types = call.pre.record_types]_vars

----------------------------------------------------------------------------
(* The parser: src/src/data_processing/health_parser.py.                   *)
(*                                                                         *)
(* An attribute or element text is None (absent attribute, element         *)
(* without text) or a text.  A text that float() reads is kept as its      *)
(* characters; a date text is kept as the parts that split(' ') yields.    *)

\* a text given by its characters
Text(chars) == [chars |-> chars]
\* element.find(tag): no such child, or the child with its .text
NoChild == [absent |-> TRUE]
Child(text) == [text |-> text]

\* truth value of an attribute text: None and '' are false
Truthy(text) == text # None /\ text # Text(<< >>)

\* what a call leaves: a returned value or an exception
Returned(value) == [status |-> "ok", value |-> value, error |-> NULL]
Raised(error) == [status |-> "raised", value |-> None, error |-> error]

Digits == {"0", "1", "2", "3", "4", "5", "6", "7", "8", "9"}

DigitValue(c) ==
    CASE c = "0" -> 0 [] c = "1" -> 1 [] c = "2" -> 2 [] c = "3" -> 3
      [] c = "4" -> 4 [] c = "5" -> 5 [] c = "6" -> 6 [] c = "7" -> 7
      [] c = "8" -> 8 [] c = "9" -> 9

\* the number written by a sequence of digits
RECURSIVE Decimal(_)
Decimal(chars) ==
    IF chars = << >> THEN 0
    ELSE 10 * Decimal(SubSeq(chars, 1, Len(chars) - 1))
            + DigitValue(chars[Len(chars)])

\* float(text) for the texts of the model (digits, letters, blank, ''):
\* None is a TypeError, a text that is not a number a ValueError
float(text) ==
    IF text = None THEN Raised("TypeError")
    ELSE IF text.chars # << >> /\ \A i \in 1..Len(text.chars) : text.chars[i] \in Digits
        THEN Returned(Decimal(text.chars))
    ELSE Raised("ValueError")

\* the parts of a date text: 'YYYY-MM-DD', 'HH:MM:SS', 'HH:MM', '+HHMM',
\* 'YYYY-MM-DDTHH:MM:SS' or some other word
DatePart(d) == [kind |-> "date", day |-> d, tod |-> 0]
TimePart(t) == [kind |-> "time", day |-> 0, tod |-> t]
ShortTimePart(t) == [kind |-> "hm", day |-> 0, tod |-> t]
OffsetPart == [kind |-> "offset", day |-> 0, tod |-> 0]
IsoPart(d, t) == [kind |-> "isoT", day |-> d, tod |-> t]
WordPart == [kind |-> "word", day |-> 0, tod |-> 0]

\* a date text given by the parts between its blanks
DateText(parts) == [parts |-> parts]

\* datetime.strptime(first + ' ' + second, '%Y-%m-%d %H:%M:%S')
strptime(first, second) ==
    IF first.kind = "date" /\ second.kind = "time"
        THEN Returned(Datetime(first.day, second.tod))
        ELSE Raised("ValueError")

\* datetime.fromisoformat(date_str) for the date texts of the model
fromisoformat(parts) ==
    IF Len(parts) = 1 /\ parts[1].kind = "isoT"
        THEN Returned(Datetime(parts[1].day, parts[1].tod))
    ELSE IF Len(parts) = 1 /\ parts[1].kind = "date"
        THEN Returned(Datetime(parts[1].day, 0))
    ELSE IF Len(parts) = 2 /\ parts[1].kind = "date"
                           /\ parts[2].kind \in {"time", "hm"}
        THEN Returned(Datetime(parts[1].day, parts[2].tod))
    ELSE Raised("ValueError")

\* _parse_apple_date, lines 263-269: split(' ')[1] is an IndexError on a
\* text without a blank, and only ValueError leads to the fallback
_parse_apple_date(date_str) ==
    IF date_str = None THEN Raised("AttributeError")
    ELSE IF Len(date_str.parts) < 2 THEN Raised("IndexError")
    ELSE IF strptime(date_str.parts[1], date_str.parts[2]).status = "ok"
        THEN strptime(date_str.parts[1], date_str.parts[2])
    ELSE fromisoformat(date_str.parts)

\* lines 111-122: the value of a Record element; status "return" is the
\* early return None
ParseValue(record_elem) ==
    IF record_elem.Value # NoChild THEN float(record_elem.Value.text)
    ELSE IF Truthy(record_elem.value) THEN float(record_elem.value)
    ELSE [status |-> "return", value |-> None, error |-> NULL]

\* lines 124-146: start and end date of a Record element
ParseDates(record_elem) ==
    IF record_elem.StartDate # NoChild
        THEN LET start == _parse_apple_date(record_elem.StartDate.text)
                 end == IF record_elem.EndDate # NoChild
                            THEN _parse_apple_date(record_elem.EndDate.text)
                            ELSE Returned(None)
             IN IF start.status # "ok" THEN start
                ELSE IF end.status # "ok" THEN end
                ELSE Returned([start_date |-> start.value, end_date |-> end.value])
    ELSE IF Truthy(record_elem.startDate)
        THEN LET start == _parse_apple_date(record_elem.startDate)
                 end == IF Truthy(record_elem.endDate)
                            THEN _parse_apple_date(record_elem.endDate)
                            ELSE Returned(None)
             IN IF start.status # "ok" THEN start
                ELSE IF end.status # "ok" THEN end
                ELSE Returned([start_date |-> start.value, end_date |-> end.value])
    ELSE [status |-> "return", value |-> None, error |-> NULL]

\* lines 148-162: sourceVersion and device go into the metadata when set
RecordMetadata(record_elem) ==
    LET keys == {k \in {"sourceVersion", "device"} : record_elem[k] # NULL}
    IN IF keys = {} THEN EmptyDict ELSE [k \in keys |-> record_elem[k]]

\* lines 174-176: except (ValueError, AttributeError): return None
ExceptValueOrAttributeError(out) ==
    IF out.status = "return" \/ out.error \in {"ValueError", "AttributeError"}
        THEN Returned(None)
        ELSE out

\* _parse_record_element, lines 104-176
_parse_record_element(record_elem) ==
    LET value == ParseValue(record_elem)
        dates == ParseDates(record_elem)
    IN IF value.status # "ok" THEN ExceptValueOrAttributeError(value)
       ELSE IF dates.status # "ok" THEN ExceptValueOrAttributeError(dates)
       ELSE Returned([record_type |-> record_elem.type,
                      source      |-> IF record_elem.sourceName # NULL
                                         THEN record_elem.sourceName
                                         ELSE "Unknown",
                      unit        |-> record_elem.unit,
                      value       |-> value.value,
                      start_date  |-> dates.value.start_date,
                      end_date    |-> dates.value.end_date,
                      metadata    |-> RecordMetadata(record_elem)])

\* the date texts of the model
AppleDate == DateText(<<DatePart(0), TimePart(1), OffsetPart>>)
IsoDate == DateText(<<IsoPart(0, 1)>>)
IsoBlankDate == DateText(<<DatePart(0), ShortTimePart(1)>>)
OneWord == DateText(<<WordPart>>)
TwoWords == DateText(<<WordPart, WordPart>>)

\* Record elements: every combination of value attribute, Value child, date
\* attributes and date children
RecordElements ==
    [type          : {"HeartRate", NULL},
     sourceName    : {"Watch", NULL},
     unit          : {"count"},
     value         : {None, Text(<<"7", "2">>), Text(<<"a", "b", "c">>), Text(<< >>)},
     Value         : {NoChild, Child(Text(<<"8", "0">>)),
                      Child(Text(<<"a", "b", "c">>)), Child(None)},
     startDate     : {None, AppleDate, IsoDate, IsoBlankDate, OneWord, TwoWords},
     endDate       : {None, AppleDate, IsoDate},
     StartDate     : {NoChild, Child(AppleDate), Child(None)},
     EndDate       : {NoChild, Child(AppleDate)},
     sourceVersion : {NULL, "1.0"},
     device        : {NULL}]

\* one call of _parse_record_element
parse_record_element(record_elem) ==
    /\ pc = "idle"
    /\ LET out == _parse_record_element(record_elem)
       IN ret' = [op |-> "_parse_record_element", arg |-> record_elem,
                  status |-> out.status,
                  value |-> IF out.status = "ok" THEN out.value ELSE out.error]
    /\ UNCHANGED <<db, tx, pc, call, backup, clock>>

\* one element per behaviour: a call depends on its argument only
NextParse ==
    /\ ret.op = "none"
    /\ \E record_elem \in RecordElements : parse_record_element(record_elem)

SpecParse == Init /\ [][NextParse]_vars

\* C18: _parse_record_element never raises: for every Record entry it
\* returns a HealthRecord or None, and a returned record's value is that
\* of the Value child when there is one, else that of the value attribute.
C18_ExtractionNeverRaises ==
    ret.op = "_parse_record_element" =>
        /\ ret.status = "ok"
        /\ ret.value # None =>
              ret.value.value =
                  IF ret.arg.Value # NoChild
                      THEN float(ret.arg.Value.text).value
                      ELSE float(ret.arg.value).value

\* C19: an entry with a numeric value whose start date reads
\* 'YYYY-MM-DD HH:MM:SS <offset>' yields a record with that date and time
\* (offset dropped); one whose start date reads 'YYYY-MM-DDTHH:MM:SS'
\* yields a record through the fallback; one with any other date text is
\* dropped (None); in no case does an exception reach the caller.
C19_TwoDateFormats ==
    (/\ ret.op = "_parse_record_element"
     /\ ret.arg.Value = NoChild
     /\ ret.arg.value = Text(<<"7", "2">>)
     /\ ret.arg.StartDate = NoChild
     /\ ret.arg.endDate = None)
    => /\ ret.status = "ok"
       /\ ret.arg.startDate \in {AppleDate, IsoDate} =>
             /\ ret.value # None
             /\ ret.value.start_date = Datetime(0, 1)
       /\ ret.arg.startDate \in {OneWord, TwoWords} => ret.value = None

----------------------------------------------------------------------------
(* An ingestion run: AppleHealthParser.parse.                              *)

\* element.get(name, default)
GetOr(text, default) == IF text # None THEN text ELSE default

\* _parse_workout_element, lines 178-214
_parse_workout_element(workout_elem) ==
    LET workout_type == IF workout_elem.workoutActivityType # NULL
                            THEN workout_elem.workoutActivityType
                            ELSE "UnknownWorkout"
        duration_unit == IF workout_elem.durationUnit # NULL
                            THEN workout_elem.durationUnit ELSE "min"
        duration == float(GetOr(workout_elem.duration, Text(<<"0">>)))
        start_date == _parse_apple_date(workout_elem.startDate)
        end_date == _parse_apple_date(workout_elem.endDate)
    IN IF duration.status # "ok" THEN ExceptValueOrAttributeError(duration)
       ELSE IF start_date.status # "ok" THEN ExceptValueOrAttributeError(start_date)
       ELSE IF end_date.status # "ok" THEN ExceptValueOrAttributeError(end_date)
       ELSE Returned(
            [record_type |-> "Workout:" \o workout_type,
             source      |-> IF workout_elem.sourceName # NULL
                                THEN workout_elem.sourceName ELSE "Unknown",
             unit        |-> duration_unit,
             value       |-> duration.value,
             start_date  |-> start_date.value,
             end_date    |-> end_date.value,
             metadata    |->
                [workout_type             |-> workout_type,
                 duration                 |-> duration.value,
                 duration_unit            |-> duration_unit,
                 total_distance           |-> workout_elem.totalDistance,
                 total_distance_unit      |-> workout_elem.totalDistanceUnit,
                 total_energy_burned      |-> workout_elem.totalEnergyBurned,
                 total_energy_burned_unit |-> workout_elem.totalEnergyBurnedUnit]])

\* a Python value as the validator sees it: its type and the value
PyStr(x) == [type |-> IF x = NULL THEN "NoneType" ELSE "str", str |-> x]
PyFloat(x) == [type |-> "float", num |-> x]
PyDatetime(x) == [type |-> IF x = None THEN "NoneType" ELSE "datetime", value |-> x]
PyText(x) == [type |-> IF x = None THEN "NoneType" ELSE "str", value |-> x]
PyDict(x) == [type |-> "dict", dict |-> x]

\* the value itself
PyValue(py) ==
    IF "str" \in DOMAIN py THEN py.str
    ELSE IF "num" \in DOMAIN py THEN py.num
    ELSE IF "dict" \in DOMAIN py THEN py.dict
    ELSE py.value

\* the JSON type that jsonschema sees in a Python value; a datetime has none
JsonType(py) ==
    CASE py.type = "str" -> "string"
      [] py.type \in {"int", "float"} -> "number"
      [] py.type = "NoneType" -> "null"
      [] py.type = "dict" -> "object"
      [] OTHER -> "none"

\* the rules of the schema's properties, lines 43-49 and 59-69
\* ("format" is an annotation: validate() is called without a format
\* checker)
NonEmptyString(py) == JsonType(py) = "string" /\ PyValue(py) # ""
String(py) == JsonType(py) = "string"
StringOrNull(py) == JsonType(py) \in {"string", "null"}
Number(py) == JsonType(py) = "number"
NumberOrNull(py) == JsonType(py) \in {"number", "null"}
Object(py) == JsonType(py) = "object"
\* {"type": "number", "minimum": 0}
NonNegativeNumber(py) == JsonType(py) = "number" /\ PyValue(py) >= 0

\* "properties": a rule binds a key only when the dict has the key
Property(instance, key, Rule(_)) ==
    key \in DOMAIN instance => Rule(instance[key])

\* "required"
Required(instance, keys) == keys \subseteq DOMAIN instance

\* validate_workout with a schema that has lost "minimum": 0
validate_workout_any_duration(workout) ==
    /\ Required(workout, {"workout_type", "source", "duration",
                          "start_date", "end_date"})
    /\ Property(workout, "workout_type", NonEmptyString)
    /\ Property(workout, "source", NonEmptyString)
    /\ Property(workout, "duration", Number)
    /\ Property(workout, "duration_unit", String)
    /\ Property(workout, "start_date", String)
    /\ Property(workout, "end_date", String)
    /\ Property(workout, "total_distance", NumberOrNull)
    /\ Property(workout, "total_distance_unit", StringOrNull)
    /\ Property(workout, "total_energy_burned", NumberOrNull)
    /\ Property(workout, "total_energy_burned_unit", StringOrNull)
    /\ Property(workout, "metadata", Object)

\* validate_health_record, lines 78-92, against the items schema of
\* health_records, lines 41-52: True when validate() passes, False when it
\* raises ValidationError
validate_health_record(record) ==
    /\ Required(record, {"record_type", "source", "value", "start_date"})
    /\ Property(record, "record_type", NonEmptyString)
    /\ Property(record, "source", NonEmptyString)
    /\ Property(record, "unit", StringOrNull)
    /\ Property(record, "value", Number)
    /\ Property(record, "start_date", String)
    /\ Property(record, "end_date", StringOrNull)
    /\ Property(record, "metadata", Object)

\* validate_workout, lines 94-108, against the items schema of workouts,
\* lines 56-72
validate_workout(workout) ==
    /\ Required(workout, {"workout_type", "source", "duration",
                          "start_date", "end_date"})
    /\ Property(workout, "workout_type", NonEmptyString)
    /\ Property(workout, "source", NonEmptyString)
    /\ Property(workout, "duration", NonNegativeNumber)
    /\ Property(workout, "duration_unit", String)
    /\ Property(workout, "start_date", String)
    /\ Property(workout, "end_date", String)
    /\ Property(workout, "total_distance", NumberOrNull)
    /\ Property(workout, "total_distance_unit", StringOrNull)
    /\ Property(workout, "total_energy_burned", NumberOrNull)
    /\ Property(workout, "total_energy_burned_unit", StringOrNull)
    /\ Property(workout, "metadata", Object)

\* what a step of the run leaves: the store, the clock, and an exception
\* if one was raised
Ran(t, now) ==
    [status |-> "ok", error |-> NULL, db |-> t, clock |-> now, out |-> << >>]
Failed(error, t, now) ==
    [status |-> "raised", error |-> error, db |-> t, clock |-> now, out |-> << >>]

\* the lines a step printed, put before those of the steps after it
Printed(lines, then) == [then EXCEPT !.out = lines \o @]

\* a whole call of insert_health_record, lines 156-194
InsertHealthRecordCall(t, record, now) ==
    IF record.source = NULL THEN Failed("IntegrityError", t, now + 1)
    ELSE IF record.record_type = NULL THEN Failed("AttributeError", t, now + 1)
    ELSE Ran(_update_record_type_info(
                _update_source_info(InsertOrIgnoreRecord(t, record),
                                    record.source, record.metadata, <<now>>),
                record.record_type),
             now + 1)

\* lines 232-251 of insert_workout: the workouts row, written once the
\* health record is in
InsertWorkoutRow(inserted, record_id, workout) ==
    IF inserted.status # "ok" THEN inserted
    ELSE Ran(InsertOrReplaceWorkout(inserted.db, record_id, workout),
             inserted.clock)

\* a whole call of insert_workout, lines 206-253
InsertWorkoutCall(t, workout, now) ==
    InsertWorkoutRow(InsertHealthRecordCall(t, WorkoutHealthRecord(workout), now),
                     LastRowId(t, WorkoutHealthRecord(workout)), workout)

\* _store_record, lines 216-233
_store_record(t, record, now) ==
    IF validate_health_record(
            [record_type |-> PyStr(record.record_type),
             source      |-> PyStr(record.source),
             unit        |-> PyStr(record.unit),
             value       |-> PyFloat(record.value),
             start_date  |-> PyDatetime(record.start_date),
             end_date    |-> PyDatetime(record.end_date),
             metadata    |-> PyDict(record.metadata)])
        THEN InsertHealthRecordCall(t, record, now)
        ELSE Printed(<<"Health record validation error",
                        "Skipping invalid record">>, Ran(t, now))

\* _store_workout, lines 235-258
_store_workout(t, workout_record, now) ==
    LET metadata == workout_record.metadata
    IN IF validate_workout(
            [workout_type             |-> PyStr(metadata.workout_type),
             source                   |-> PyStr(workout_record.source),
             duration                 |-> PyFloat(metadata.duration),
             duration_unit            |-> PyStr(metadata.duration_unit),
             start_date               |-> PyDatetime(workout_record.start_date),
             end_date                 |-> PyDatetime(workout_record.end_date),
             total_distance           |-> PyText(metadata.total_distance),
             total_distance_unit      |-> PyStr(metadata.total_distance_unit),
             total_energy_burned      |-> PyText(metadata.total_energy_burned),
             total_energy_burned_unit |-> PyStr(metadata.total_energy_burned_unit),
             metadata                 |-> PyDict(metadata)])
        THEN InsertWorkoutCall(t,
                [workout_type             |-> metadata.workout_type,
                 source                   |-> workout_record.source,
                 duration                 |-> metadata.duration,
                 duration_unit            |-> metadata.duration_unit,
                 start_date               |-> workout_record.start_date,
                 end_date                 |-> workout_record.end_date,
                 total_distance           |-> metadata.total_distance,
                 total_distance_unit      |-> metadata.total_distance_unit,
                 total_energy_burned      |-> metadata.total_energy_burned,
                 total_energy_burned_unit |-> metadata.total_energy_burned_unit,
                 metadata                 |-> metadata],
                now)
        ELSE Printed(<<"Workout validation error",
                        "Skipping invalid workout">>, Ran(t, now))

\* lines 91-93: what becomes of one extracted Record
StoreParsedRecord(record, t, now) ==
    IF record.status # "ok" THEN Failed(record.error, t, now)
    ELSE IF record.value = None THEN Ran(t, now)
    ELSE _store_record(t, record.value, now)

\* lines 97-99: what becomes of one extracted Workout
StoreParsedWorkout(workout_record, t, now) ==
    IF workout_record.status # "ok" THEN Failed(workout_record.error, t, now)
    ELSE IF workout_record.value = None THEN Ran(t, now)
    ELSE _store_workout(t, workout_record.value, now)

RECURSIVE StoreRecords(_, _, _)
RECURSIVE NextRecord(_, _)
\* line 90: the loop goes on to the next Record unless an exception left it
NextRecord(stored, elems) ==
    IF stored.status # "ok" THEN stored
    ELSE Printed(stored.out, StoreRecords(elems, stored.db, stored.clock))

\* lines 90-93: the loop over the Record elements
StoreRecords(elems, t, now) ==
    IF elems = << >> THEN Ran(t, now)
    ELSE NextRecord(StoreParsedRecord(_parse_record_element(Head(elems)), t, now),
                    Tail(elems))

RECURSIVE StoreWorkouts(_, _, _)
RECURSIVE NextWorkout(_, _)
\* line 96: the loop goes on to the next Workout unless an exception left it
NextWorkout(stored, elems) ==
    IF stored.status # "ok" THEN stored
    ELSE Printed(stored.out, StoreWorkouts(elems, stored.db, stored.clock))

\* lines 96-99: the loop over the Workout elements
StoreWorkouts(elems, t, now) ==
    IF elems = << >> THEN Ran(t, now)
    ELSE NextWorkout(StoreParsedWorkout(_parse_workout_element(Head(elems)), t, now),
                     Tail(elems))

\* _parse_xml, lines 82-102: ET.parse reads the whole document first; a
\* document that is not well-formed XML is a ParseError, raised again as
\* ValueError
_parse_xml(xml_file, t, now) ==
    IF ~xml_file.wellformed THEN Failed("ValueError", t, now)
    ELSE NextWorkout(StoreRecords(xml_file.records, t, now), xml_file.workouts)

\* parse, lines 43-80
parse(archive, t, now) ==
    IF ~archive.exists THEN Failed("FileNotFoundError", t, now)
    ELSE IF ~archive.has_export THEN Failed("FileNotFoundError", t, now)
    ELSE _parse_xml(archive, t, now)

\* all sequences over S of length at most n
SeqsUpTo(S, n) == UNION {[1..k -> S] : k \in 0..n}

GoodRecordElement(value_text) ==
    [type |-> "HeartRate", sourceName |-> "Watch", unit |-> "count",
     value |-> value_text, Value |-> NoChild,
     startDate |-> AppleDate, endDate |-> AppleDate,
     StartDate |-> NoChild, EndDate |-> NoChild,
     sourceVersion |-> NULL, device |-> NULL]

\* Record elements of a document: two well-formed ones, one with a
\* non-numeric value, one with an empty Value child, one with an ISO date
DocumentRecordElements ==
    {GoodRecordElement(Text(<<"7", "2">>)),
     GoodRecordElement(Text(<<"8", "0">>)),
     GoodRecordElement(Text(<<"a", "b", "c">>)),
     [GoodRecordElement(Text(<<"7", "2">>)) EXCEPT !.Value = Child(None)],
     [GoodRecordElement(Text(<<"7", "2">>)) EXCEPT !.startDate = IsoDate]}

\* Workout elements of a document: well-formed ones, with and without a
\* distance, and ones without dates
DocumentWorkoutElements ==
    {[workoutActivityType |-> "Running", sourceName |-> "Watch",
      duration |-> Text(<<"3", "0">>), durationUnit |-> "min",
      startDate |-> start, endDate |-> start,
      totalDistance |-> distance,
      totalDistanceUnit |-> IF distance = None THEN NULL ELSE "km",
      totalEnergyBurned |-> None, totalEnergyBurnedUnit |-> NULL] :
        start \in {AppleDate, None}, distance \in {None, Text(<<"5">>)}}

\* the export archives: missing, without export.xml, with a document that
\* is not well-formed XML, or with a document of Record and Workout elements
Archives ==
    [exists     : BOOLEAN,
     has_export : BOOLEAN,
     wellformed : BOOLEAN,
     records    : SeqsUpTo(DocumentRecordElements, MaxElements),
     workouts   : SeqsUpTo(DocumentWorkoutElements, MaxElements)]

\* one ingestion run, as main.py starts it
ingest(archive) ==
    /\ pc = "idle"
    /\ \E run \in {parse(archive, db, clock)} :
          /\ db' = run.db
          /\ tx' = run.db
          /\ clock' = run.clock
          /\ ret' = [op |-> "parse", arg |-> archive, status |-> run.status,
                     value |-> [error |-> run.error, out |-> run.out]]
    /\ UNCHANGED <<pc, call, backup>>

\* one run per behaviour, on a new store
NextIngest ==
    /\ ret.op = "none"
    /\ \E archive \in Archives : ingest(archive)

SpecIngest == Init /\ [][NextIngest]_vars

\* C20: an ingestion run fails only when the export document cannot be
\* located or opened; a malformed element does not abort it: the
\* well-formed Record and Workout elements of the document, before and
\* after a malformed one, are extracted and stored.
C20_MalformedElementSkipped ==
    ret.op = "parse" =>
        /\ ret.status = "raised" => ~ret.arg.exists \/ ~ret.arg.has_export
        /\ (ret.arg.exists /\ ret.arg.has_export) =>
              /\ \A i \in 1..Len(ret.arg.records) :
                    LET record == _parse_record_element(ret.arg.records[i])
                    IN (record.status = "ok" /\ record.value # None) =>
                          \E row \in db.health_records :
                              /\ row.record_type = record.value.record_type
                              /\ row.value = record.value.value
                              /\ row.start_date = isoformat(record.value.start_date)
              /\ \A i \in 1..Len(ret.arg.workouts) :
                    LET workout == _parse_workout_element(ret.arg.workouts[i])
                    IN (workout.status = "ok" /\ workout.value # None) =>
                          \E row \in db.workouts :
                              /\ row.workout_type = workout.value.metadata.workout_type
                              /\ row.start_date = isoformat(workout.value.start_date)

\* an entry with a non-numeric value attribute and no Value child
NonNumericEntry(record_elem) ==
    /\ record_elem.Value = NoChild
    /\ record_elem.value # None
    /\ float(record_elem.value).status # "ok"

\* the store holds the Record extracted from the entry
RecordStored(record_elem, t) ==
    LET record == _parse_record_element(record_elem)
    IN /\ record.status = "ok"
       /\ record.value # None
       /\ \E row \in t.health_records :
              /\ row.record_type = record.value.record_type
              /\ row.value = record.value.value
              /\ row.start_date = isoformat(record.value.start_date)

\* the store holds the Workout extracted from the entry
WorkoutStored(workout_elem, t) ==
    LET workout == _parse_workout_element(workout_elem)
    IN /\ workout.status = "ok"
       /\ workout.value # None
       /\ \E row \in t.workouts :
              /\ row.workout_type = workout.value.metadata.workout_type
              /\ row.start_date = isoformat(workout.value.start_date)

\* the skips a run reported
SkipsReported(out) ==
    Cardinality({i \in 1..Len(out) :
        out[i] \in {"Skipping invalid record", "Skipping invalid workout"}})

\* the entries of the document that the run left out of the store
EntriesNotStored(archive, t) ==
    Cardinality({i \in 1..Len(archive.records) :
                    ~RecordStored(archive.records[i], t)})
    + Cardinality({i \in 1..Len(archive.workouts) :
                    ~WorkoutStored(archive.workouts[i], t)})

\* C21: in a document whose entries are well-formed except for entries
\* with a non-numeric value attribute and no Value child, such an entry is
\* dropped without being stored, the run goes on and completes
\* successfully, and the run reports every entry it left out, the dropped
\* one included, as a skip.
C21_NonNumericSkipReported ==
    ( /\ ret.op = "parse"
      /\ ret.arg.exists /\ ret.arg.has_export /\ ret.arg.wellformed
      /\ \E i \in 1..Len(ret.arg.records) : NonNumericEntry(ret.arg.records[i])
      /\ \A i \in 1..Len(ret.arg.records) :
            _parse_record_element(ret.arg.records[i]).status = "ok" )
    => /\ ret.status = "ok"
       /\ \A i \in 1..Len(ret.arg.records) :
            NonNumericEntry(ret.arg.records[i])
                => ~RecordStored(ret.arg.records[i], db)
       /\ SkipsReported(ret.value.out) = EntriesNotStored(ret.arg, db)

\* C22: in a run that ends normally, every Record and every Workout that
\* the extractor produces from an entry of the document is accepted by the
\* validator and inserted: the store holds it after the run.
C22_ExtractedIsStored ==
    (ret.op = "parse" /\ ret.status = "ok") =>
        /\ \A i \in 1..Len(ret.arg.records) :
              _parse_record_element(ret.arg.records[i]).value # None
                  => RecordStored(ret.arg.records[i], db)
        /\ \A i \in 1..Len(ret.arg.workouts) :
              _parse_workout_element(ret.arg.workouts[i]).value # None
                  => WorkoutStored(ret.arg.workouts[i], db)

----------------------------------------------------------------------------
(* The write path: validate, then insert.                                  *)

\* the dict as insert_health_record reads it: record[...] for the required
\* keys, record.get(...) for unit, end_date and metadata (lines 160-182)
RecordOf(candidate) ==
    [record_type |-> PyValue(candidate.record_type),
     source      |-> PyValue(candidate.source),
     unit        |-> IF "unit" \in DOMAIN candidate
                        THEN PyValue(candidate.unit) ELSE NULL,
     value       |-> PyValue(candidate.value),
     start_date  |-> PyValue(candidate.start_date),
     end_date    |-> IF "end_date" \in DOMAIN candidate
                        THEN PyValue(candidate.end_date) ELSE None,
     metadata    |-> IF "metadata" \in DOMAIN candidate
                        THEN PyValue(candidate.metadata) ELSE EmptyDict]

\* if validator.validate_health_record(record): db.insert_health_record(record)
\* (health_parser.py lines 229-233, test_database_functionality.py lines
\* 54-59); a rejected candidate is reported and left out
store_record(candidate) ==
    IF validate_health_record(candidate)
        THEN BeginInsert("insert_health_record", candidate, RecordOf(candidate))
        ELSE /\ pc = "idle"
             /\ ret' = [op |-> "validate_health_record", arg |-> candidate,
                        status |-> "ok", value |-> FALSE]
             /\ UNCHANGED <<db, tx, pc, call, backup, clock>>

\* a dict without one of its keys
Without(dict, key) == [k \in DOMAIN dict \ {key} |-> dict[k]]

\* candidates of the write path: dates as ISO strings or as datetime
\* objects, end_date given, None or left out
StoreRecordInputs ==
    LET full == [record_type : {PyStr("HeartRate")},
                 source      : {PyStr("Watch")},
                 unit        : {PyStr("count")},
                 value       : {PyFloat(72)},
                 start_date  : {PyText(IsoString(0, 0)), PyText(IsoString(0, 1)),
                                PyDatetime(Datetime(0, 0))},
                 end_date    : {PyText(IsoString(0, 0)), PyText(IsoString(0, 1)),
                                PyDatetime(None)},
                 metadata    : {PyDict(EmptyDict)}]
    IN full \cup {Without(c, "end_date") : c \in {f \in full : f.end_date.value = None}}

NextStore ==
    \/ \E candidate \in StoreRecordInputs : store_record(candidate)
    \/ InsertStep

SpecStore == Init /\ [][NextStore]_vars

\* C23: every record that passed validation and is stored has a
\* start_date and, when it has an end_date, the end_date is not earlier
\* than the start_date.
C23_EndNotBeforeStart ==
    \A row \in db.health_records :
        /\ row.start_date # NullDate
        /\ row.end_date # NullDate => TextLE(row.start_date, row.end_date)

----------------------------------------------------------------------------
(* The validator on its own.                                               *)

\* validate_health_record(record), lines 87-92: validate() either passes
\* or raises ValidationError, which is caught and turned into False
validate_record_call(candidate) ==
    /\ pc = "idle"
    /\ ret' = [op |-> "validate_health_record", arg |-> candidate,
               status |-> "ok", value |-> validate_health_record(candidate)]
    /\ UNCHANGED <<db, tx, pc, call, backup, clock>>

\* validate_workout(workout), lines 103-108
validate_workout_call(candidate) ==
    /\ pc = "idle"
    /\ ret' = [op |-> "validate_workout", arg |-> candidate,
               status |-> "ok", value |-> validate_workout(candidate)]
    /\ UNCHANGED <<db, tx, pc, call, backup, clock>>

\* a set of dicts and the same dicts with one key left out
WithMissingKeys(dicts) ==
    dicts \cup {Without(c, key) : c \in dicts,
                key \in UNION {DOMAIN c : c \in dicts}}

\* record candidates: each field with the right and with wrong types
RecordCandidates ==
    WithMissingKeys(
        [record_type : {PyStr("HeartRate"), PyStr(""), PyFloat(5)},
         source      : {PyStr("Watch"), PyStr(NULL)},
         unit        : {PyStr("count"), PyStr(NULL), PyFloat(1)},
         value       : {PyFloat(72), PyStr("abc")},
         start_date  : {PyText(IsoString(0, 0)), PyDatetime(Datetime(0, 0)),
                        PyDatetime(None)},
         end_date    : {PyText(IsoString(0, 0)), PyDatetime(Datetime(0, 0)),
                        PyDatetime(None)},
         metadata    : {PyDict(EmptyDict), PyStr("none")}])

\* workout candidates
WorkoutCandidates ==
    WithMissingKeys(
        [workout_type  : {PyStr("Running"), PyStr("")},
         source        : {PyStr("Watch")},
         duration      : {PyFloat(30), PyFloat(0), PyFloat(0 - 1), PyStr("30")},
         duration_unit : {PyStr("min"), PyStr(NULL)},
         start_date    : {PyText(IsoString(0, 0)), PyDatetime(Datetime(0, 0))},
         end_date      : {PyText(IsoString(0, 1)), PyDatetime(None)},
         total_distance           : {PyFloat(5), PyText(None), PyText(Text(<<"5">>))},
         total_distance_unit      : {PyStr("km")},
         total_energy_burned      : {PyText(None)},
         total_energy_burned_unit : {PyStr(NULL)},
         metadata      : {PyDict(EmptyDict)}])

\* one call of the validator per behaviour
NextValidate ==
    \/ /\ ret.op = "none"
       /\ \E candidate \in RecordCandidates : validate_record_call(candidate)
    \/ /\ ret.op = "none"
       /\ \E candidate \in WorkoutCandidates : validate_workout_call(candidate)

SpecValidate == Init /\ [][NextValidate]_vars

\* the fields a candidate must have, and the Python types each field may
\* have
RequiredFields(op) ==
    IF op = "validate_health_record"
        THEN {"record_type", "source", "value", "start_date"}
        ELSE {"workout_type", "source", "duration", "start_date", "end_date"}

RightTypes(op) ==
    IF op = "validate_health_record"
        THEN [record_type |-> {"str"}, source |-> {"str"},
              unit |-> {"str", "NoneType"}, value |-> {"int", "float"},
              start_date |-> {"str"}, end_date |-> {"str", "NoneType"},
              metadata |-> {"dict"}]
        ELSE [workout_type |-> {"str"}, source |-> {"str"},
              duration |-> {"int", "float"}, duration_unit |-> {"str"},
              start_date |-> {"str"}, end_date |-> {"str"},
              total_distance |-> {"int", "float", "NoneType"},
              total_distance_unit |-> {"str", "NoneType"},
              total_energy_burned |-> {"int", "float", "NoneType"},
              total_energy_burned_unit |-> {"str", "NoneType"},
              metadata |-> {"dict"}]

MissingRequiredField(op, candidate) ==
    \E key \in RequiredFields(op) : key \notin DOMAIN candidate

WrongFieldType(op, candidate) ==
    \E key \in DOMAIN candidate : candidate[key].type \notin RightTypes(op)[key]

NegativeDuration(candidate) ==
    /\ "duration" \in DOMAIN candidate
    /\ candidate.duration.type \in {"int", "float"}
    /\ PyValue(candidate.duration) < 0

EmptyName(candidate) ==
    \E key \in {"record_type", "workout_type", "source"} \cap DOMAIN candidate :
        candidate[key].type = "str" /\ PyValue(candidate[key]) = ""

IsValidatorCall == ret.op \in {"validate_health_record", "validate_workout"}

----------------------------------------------------------------------------
(* Workouts by type.                                                       *)

\* ORDER BY w.start_date DESC (rows of equal start_date in rowid order)
RECURSIVE OrderByStartDateDesc(_)
OrderByStartDateDesc(rows) ==
    IF rows = {} THEN << >>
    ELSE LET first == CHOOSE x \in rows : \A y \in rows :
                          \/ x.start_date # y.start_date /\ TextLE(y.start_date, x.start_date)
                          \/ x.start_date = y.start_date /\ x.id <= y.id
         IN <<first>> \o OrderByStartDateDesc(rows \ {first})

\* ORDER BY w.start_date, the oldest first
RECURSIVE OrderByStartDateAsc(_)
OrderByStartDateAsc(rows) ==
    IF rows = {} THEN << >>
    ELSE LET first == CHOOSE x \in rows : \A y \in rows :
                          \/ x.start_date # y.start_date /\ TextLE(x.start_date, y.start_date)
                          \/ x.start_date = y.start_date /\ x.id <= y.id
         IN <<first>> \o OrderByStartDateAsc(rows \ {first})

\* LIMIT n: the first n rows (a negative n means no limit)
LIMIT(rows, n) ==
    IF n < 0 \/ n >= Len(rows) THEN rows ELSE SubSeq(rows, 1, n)

\* SELECT w.*, hr.unit, hr.value FROM workouts w JOIN health_records hr
\* ON w.id = hr.id WHERE w.workout_type = ?
JoinedWorkouts(t, workout_type) ==
    {[k \in DOMAIN w \cup {"unit", "value"} |->
         IF k = "unit" THEN hr.unit ELSE IF k = "value" THEN hr.value ELSE w[k]] :
     <<w, hr>> \in {p \in t.workouts \X t.health_records :
                       /\ p[1].id = p[2].id
                       /\ p[1].workout_type = workout_type}}

\* the query with ORDER BY w.start_date in ascending order
get_workouts_by_type_oldest_first(t, workout_type, limit) ==
    LIMIT(OrderByStartDateAsc(JoinedWorkouts(t, workout_type)), limit)

\* get_workouts_by_type, lines 409-431
get_workouts_by_type(t, workout_type, limit) ==
    LIMIT(OrderByStartDateDesc(JoinedWorkouts(t, workout_type)), limit)

\* a call of get_workouts_by_type: the store is read, not written
query_workouts_by_type(workout_type, limit) ==
    /\ pc = "idle"
    /\ Finished("get_workouts_by_type", <<workout_type, limit>>,
                get_workouts_by_type(db, workout_type, limit))
    /\ UNCHANGED <<db, tx, backup, clock>>

\* 30.5 and 45 as REAL values
Fraction(num, den) == [num |-> num, den |-> den]

\* workouts of two types on two days; two durations for the same session
WorkoutQueryInputs ==
    [workout_type  : {"Running", "Yoga"},
     source        : {"Watch"},
     duration      : {Fraction(61, 2), Fraction(45, 1)},
     duration_unit : {"min"},
     start_date    : {Datetime(0, 0), Datetime(1, 0)},
     end_date      : {Datetime(1, 1)},
     total_distance           : {NullReal},
     total_distance_unit      : {NULL},
     total_energy_burned      : {NullReal},
     total_energy_burned_unit : {NULL},
     metadata      : {EmptyDict}]

WorkoutsDone == ret.op = "get_workouts_by_type"

\* workouts are inserted, then the store is asked once
NextWorkouts ==
    \/ /\ ~WorkoutsDone
       /\ \E workout \in WorkoutQueryInputs : insert_workout(workout)
    \/ InsertStep
    \/ iw_insert
    \/ iw_commit
    \/ /\ ~WorkoutsDone
       /\ \E workout_type \in {"Running", "Yoga"}, limit \in 0..2 :
              query_workouts_by_type(workout_type, limit)

SpecWorkouts == Init /\ [][NextWorkouts]_vars

\* C25: get_workouts_by_type(type, limit) returns at most limit rows, all
\* of the given type, the newest start_date first, each a row of workouts
\* joined with its backing record, so that value is the workout's duration
\* and unit its duration unit; with a single Running workout of duration
\* 30.5 in the store it returns exactly that one row.
C25_WorkoutsByType ==
    WorkoutsDone =>
        LET rows == ret.value
            workout_type == ret.arg[1]
            limit == ret.arg[2]
        IN /\ Len(rows) <= limit
           /\ \A i \in 1..Len(rows) :
                /\ rows[i].workout_type = workout_type
                /\ rows[i].value = rows[i].duration
                /\ rows[i].unit = rows[i].duration_unit
                /\ \E w \in db.workouts : w.id = rows[i].id /\ w.duration = rows[i].duration
                /\ \E hr \in db.health_records :
                      hr.id = rows[i].id /\ hr.record_type = "Workout:" \o workout_type
           /\ \A i, j \in 1..Len(rows) :
                i < j => TextLE(rows[j].start_date, rows[i].start_date)
           /\ ( /\ workout_type = "Running" /\ limit >= 1
                /\ Cardinality(db.workouts) = 1
                /\ \E w \in db.workouts :
                      w.workout_type = "Running" /\ w.duration = Fraction(61, 2) )
              => Len(rows) = 1 /\ rows[1].duration = Fraction(61, 2)

\* two Running workouts of different days came back, the newer one first
C25_Witness ==
    /\ WorkoutsDone
    /\ Len(ret.value) = 2
    /\ ret.value[1].start_date # ret.value[2].start_date
    /\ Cardinality(db.workouts) > 2

----------------------------------------------------------------------------
(* The read operations.                                                    *)

\* get_records_by_type, lines 330-348: WHERE record_type = ? ORDER BY
\* start_date DESC LIMIT ?
get_records_by_type(t, record_type, limit) ==
    LIMIT(OrderByStartDateDesc({r \in t.health_records :
                                    r.record_type = record_type}), limit)

\* ORDER BY record_count DESC; the engine fixes the order of rows of equal
\* count, CHOOSE stands for its choice
RECURSIVE OrderByRecordCountDesc(_)
OrderByRecordCountDesc(rows) ==
    IF rows = {} THEN << >>
    ELSE LET first == CHOOSE x \in rows :
                          \A y \in rows : x.record_count >= y.record_count
         IN <<first>> \o OrderByRecordCountDesc(rows \ {first})

\* get_record_types_summary, lines 433-455: record_types LEFT JOIN
\* health_records ON rt.type_name = hr.record_type GROUP BY rt.type_name
get_record_types_summary(t) ==
    OrderByRecordCountDesc(
        {[type_name    |-> rt.type_name,
          category     |-> rt.category,
          record_count |-> Cardinality({hr \in t.health_records :
                                            hr.record_type = rt.type_name}),
          first_record |-> TextMin({hr.start_date : hr \in
                              {x \in t.health_records : x.record_type = rt.type_name}}),
          last_record  |-> TextMax({hr.start_date : hr \in
                              {x \in t.health_records : x.record_type = rt.type_name}})] :
         rt \in t.record_types})

\* get_sources_summary, lines 457-479: sources LEFT JOIN health_records ON
\* s.name = hr.source GROUP BY s.name
get_sources_summary(t) ==
    OrderByRecordCountDesc(
        {[name         |-> src.name,
          device       |-> src.device,
          record_count |-> Cardinality({hr \in t.health_records :
                                            hr.source = src.name}),
          first_seen   |-> src.first_seen,
          last_seen    |-> src.last_seen] :
         src \in t.sources})

\* a read that removes what it returns: DELETE in the place of SELECT
query_records_by_type_deleting(record_type, limit) ==
    /\ pc = "idle"
    /\ Finished("get_records_by_type", <<record_type, limit>>,
                get_records_by_type(db, record_type, limit))
    /\ db' = [db EXCEPT !.health_records =
                {r \in @ : r.record_type # record_type}]
    /\ tx' = db'
    /\ UNCHANGED <<backup, clock>>

\* the calls of the read operations: the store is read, not written
query_records_by_type(record_type, limit) ==
    /\ pc = "idle"
    /\ Finished("get_records_by_type", <<record_type, limit>>,
                get_records_by_type(db, record_type, limit))
    /\ UNCHANGED <<db, tx, backup, clock>>

query_record_types_summary ==
    /\ pc = "idle"
    /\ Finished("get_record_types_summary", NoArg, get_record_types_summary(db))
    /\ UNCHANGED <<db, tx, backup, clock>>

query_sources_summary ==
    /\ pc = "idle"
    /\ Finished("get_sources_summary", NoArg, get_sources_summary(db))
    /\ UNCHANGED <<db, tx, backup, clock>>

query_database_stats ==
    /\ pc = "idle"
    /\ Finished("get_database_stats", NoArg, get_database_stats(db))
    /\ UNCHANGED <<db, tx, backup, clock>>

ReadRecordInputs ==
    [record_type : {"HeartRate", "StepCount"},
     source      : {"Watch"},
     unit        : {"count"},
     value       : {72},
     start_date  : {Datetime(0, 0), Datetime(1, 0)},
     end_date    : {Datetime(1, 1)},
     metadata    : {EmptyDict}]

ReadWorkoutInputs == {w \in WorkoutInputs : w.duration = 30}

ReadDatetimes == {Datetime(0, 0), Datetime(1, 0)}

\* every read operation, between and after the writes
Read ==
    \/ \E record_type \in {"HeartRate", "StepCount"}, limit \in 1..2 :
            query_records_by_type(record_type, limit)
    \/ \E start_date \in ReadDatetimes, end_date \in ReadDatetimes :
            query_records_by_date_range(start_date, end_date, NULL)
    \/ \E start_date \in ReadDatetimes, end_date \in ReadDatetimes :
            query_daily_aggregates("HeartRate", start_date, end_date)
    \/ query_workouts_by_type("Running", 1)
    \/ query_record_types_summary
    \/ query_sources_summary
    \/ query_database_stats

NextRead ==
    \/ \E record \in ReadRecordInputs : insert_health_record(record)
    \/ \E workout \in ReadWorkoutInputs : insert_workout(workout)
    \/ InsertStep
    \/ iw_insert
    \/ iw_commit
    \/ Read

SpecRead == Init /\ [][NextRead]_vars

ReadOperations ==
    {"get_records_by_type", "get_records_by_date_range", "get_daily_aggregates",
     "get_workouts_by_type", "get_record_types_summary", "get_sources_summary",
     "get_database_stats"}

\* a step in which a read operation is called and returns
ReadReturns == pc = "idle" /\ pc' = "idle" /\ ret'.op \in ReadOperations

----------------------------------------------------------------------------
(* The registries and the records they are derived from.                  *)

\* the names the two registries hold and the names the records carry
RegisteredTypes(t) == {rt.type_name : rt \in t.record_types}
RegisteredSources(t) == {src.name : src \in t.sources}
RecordTypes(t) == {hr.record_type : hr \in t.health_records}
RecordSources(t) == {hr.source : hr \in t.health_records}

\* the sum of the record_count column of a summary
RECURSIVE SumRecordCount(_)
SumRecordCount(rows) ==
    IF rows = << >> THEN 0
    ELSE Head(rows).record_count + SumRecordCount(Tail(rows))

\* C27: in every committed state the type names of record_types are the
\* distinct record types of health_records and the names of sources are
\* their distinct sources; total_record_types and total_sources are the
\* numbers of those, and the record counts of get_record_types_summary
\* add up to total_records.
C27_RegistryConsistent ==
    /\ RegisteredTypes(db) = RecordTypes(db)
    /\ RegisteredSources(db) = RecordSources(db)
    /\ get_database_stats(db).total_record_types = Cardinality(RecordTypes(db))
    /\ get_database_stats(db).total_sources = Cardinality(RecordSources(db))
    /\ SumRecordCount(get_record_types_summary(db))
            = get_database_stats(db).total_records

\* records of two sources and of a plain and a workout type are stored
C27_Witness ==
    /\ pc = "idle"
    /\ Cardinality(RecordSources(db)) = 2
    /\ Cardinality(RecordTypes(db)) >= 2
    /\ db.workouts # {}

----------------------------------------------------------------------------
(* The category of a record type.                                          *)

\* the type names of the records that are stored
CategoryTypeNames ==
    {"HeartRate", "RestingHeartRate", "StepCount", "Workout:Running",
     "Workout:Yoga", "AppleExerciseTime", "SleepAnalysis", "DietaryWater",
     "BodyMass"}

CategoryRecordInputs ==
    [record_type : CategoryTypeNames,
     source      : {"Watch"},
     unit        : {"count"},
     value       : {72},
     start_date  : {Datetime(0, 0)},
     end_date    : {Datetime(0, 1)},
     metadata    : {EmptyDict}]

NextCategory ==
    \/ \E record \in CategoryRecordInputs : insert_health_record(record)
    \/ InsertStep

SpecCategory == Init /\ [][NextCategory]_vars

\* the rules in their order: the keywords of a group and its category
CategoryRules ==
    << [keywords |-> {"heart", "pulse", "blood"}, category |-> "Vital Signs"],
       [keywords |-> {"step", "walk", "run", "distance"}, category |-> "Activity"],
       [keywords |-> {"workout", "exercise"}, category |-> "Fitness"],
       [keywords |-> {"sleep", "rest"}, category |-> "Sleep"],
       [keywords |-> {"nutrition", "food", "water"}, category |-> "Nutrition"] >>

\* the rules of which a keyword occurs in the lower-cased type name
MatchingRules(type_name) ==
    {i \in DOMAIN CategoryRules :
        AnyKeyword(Lower(Spell(type_name)), CategoryRules[i].keywords)}

\* the category of the earliest matching rule, Other when none matches
FirstMatch(type_name) ==
    IF MatchingRules(type_name) = {} THEN "Other"
    ELSE CategoryRules[CHOOSE i \in MatchingRules(type_name) :
                \A j \in MatchingRules(type_name) : i <= j].category

\* C28: the category stored with a record type is that of the earliest
\* rule of the table of which a keyword occurs in the lower-cased type
\* name, Other when there is none; Workout:Running (run, workout) is
\* Activity and RestingHeartRate (heart, rest) is Vital Signs.
C28_FirstMatchingRule ==
    \A rt \in db.record_types :
        /\ rt.category = FirstMatch(rt.type_name)
        /\ rt.type_name = "Workout:Running" => rt.category = "Activity"
        /\ rt.type_name = "RestingHeartRate" => rt.category = "Vital Signs"

\* both type names that match two groups are registered
C28_Witness ==
    /\ \E rt \in db.record_types :
            rt.type_name = "Workout:Running" /\ Cardinality(MatchingRules(rt.type_name)) = 2
    /\ \E rt \in db.record_types :
            rt.type_name = "RestingHeartRate" /\ Cardinality(MatchingRules(rt.type_name)) = 2
    /\ \E rt \in db.record_types : MatchingRules(rt.type_name) = {}

----------------------------------------------------------------------------
(* The source of a record that is inserted again.                          *)

\* the step that commits an insert_health_record whose INSERT OR IGNORE
\* met a stored row of the same natural key
CommitsIgnoredInsert ==
    /\ CommitsInsert
    /\ UniqueConflict(db.health_records, CallRow)
    /\ call.record_id = 0

\* C29: an insert_health_record that is ignored as a duplicate leaves
\* health_records as it was and still updates the sources row of its
\* source: last_seen is moved to the time of the call, a version / device
\* given in the metadata replaces the stored one and first_seen stays;
\* and in no step does a version or device that is set become null.
C29_IgnoredInsertTouchesSource ==
    [][/\ CommitsIgnoredInsert =>
            /\ db'.health_records = db.health_records
            /\ \A o \in db.sources : o.name = call.record.source =>
                  \E n \in db'.sources :
                      /\ n.name = o.name
                      /\ n.first_seen = o.first_seen
                      /\ n.last_seen # o.last_seen
                      /\ TextLE(o.last_seen, n.last_seen)
                      /\ \A other \in db.sources : TextLE(other.last_seen, n.last_seen)
                      /\ Get(call.record.metadata, "sourceVersion") # NULL =>
                            n.version = Get(call.record.metadata, "sourceVersion")
                      /\ Get(call.record.metadata, "device") # NULL =>
                            n.device = Get(call.record.metadata, "device")
       /\ \A o \in db.sources : \A n \in db'.sources :
            n.name = o.name =>
                /\ o.version # NULL => n.version # NULL
                /\ o.device # NULL => n.device # NULL ]_vars

\* a duplicate with version 2.0 and a device was ignored; the stored row
\* of its key carries version 1.0, the source now 2.0 and the device
C29_Witness ==
    /\ pc = "idle"
    /\ ret.op = "insert_health_record"
    /\ ret.status = "ok"
    /\ ret.value = 0
    /\ ret.arg.metadata = [sourceVersion |-> "2.0", device |-> "Watch6,1"]
    /\ \E row \in db.health_records :
            /\ row.record_type = ret.arg.record_type
            /\ row.source = ret.arg.source
            /\ row.start_date = StartDateIso(ret.arg)
            /\ row.end_date = EndDateIso(ret.arg)
            /\ row.metadata_json = json_dumps([sourceVersion |-> "1.0"])
    /\ \E s \in db.sources :
            /\ s.name = ret.arg.source
            /\ s.version = "2.0"
            /\ s.device = "Watch6,1"
            /\ s.first_seen # s.last_seen

----------------------------------------------------------------------------
(* Restore from a path that holds no file.                                 *)

\* a step in which restore_database is called and returns
RestoreReturns ==
    /\ pc = "idle"
    /\ pc' = "idle"
    /\ ret'.op = "restore_database"

\* C30: restore_database called while no file is at the backup path
\* returns without an error and leaves health_records, workouts, sources
\* and record_types exactly as they were.
C30_MissingBackupNoOp ==
    [][(RestoreReturns /\ ~backup.exists) =>
            /\ ret'.status = "ok"
            /\ db'.health_records = db.health_records
            /\ db'.workouts = db.workouts
            /\ db'.sources = db.sources
            /\ db'.record_types = db.record_types
            /\ ~backup'.exists ]_vars

\* a restore has returned on a store with records and a workout while no
\* backup had been taken
C30_Witness ==
    /\ pc = "idle"
    /\ ret.op = "restore_database"
    /\ ret.status = "ok"
    /\ ~backup.exists
    /\ db.health_records # {}
    /\ db.workouts # {}
    /\ db.sources # {}
    /\ db.record_types # {}

====
